---- MODULE Spec2Model ----
(***************************************************************************)
(* A model of the rusty-boy Game Boy emulator core: the CPU's instruction  *)
(* step and interrupt service (cpu.rs), the interrupt selector             *)
(* (interrupts.rs), the MMU (mmu.rs) with the cartridge (rom.rs), its bank *)
(* controllers (mbc.rs) and the joypad (joypad.rs), the timer (timer.rs),  *)
(* the PPU's scanline state machine (ppu.rs) and the frame pump            *)
(* (rusty_boy.rs).                                                         *)
(*                                                                         *)
(* The emulator is one record, gb, holding the fields of Cpu, Mmu, Timer   *)
(* and Ppu.  Every method of the source is an operator from a record to    *)
(* the record after the call, so that a handler that calls other methods   *)
(* is one action.  Mmu.memory is kept sparse: an address that is not in    *)
(* the domain of the function holds 0, as in the zeroed array of Mmu::new. *)
(***************************************************************************)
EXTENDS Integers, Sequences, FiniteSets, TLC

VARIABLES
    gb,            \* the emulator: Cpu, with its Mmu, Timer and Ppu
    pause,         \* RustyBoy.pause
    frame_cycles,  \* the local of RustyBoy::run
    rpc,           \* where RustyBoy::run stands: "idle", "execute", "interrupts"
    prev,          \* history: gb before the last action
    act,           \* history: the last action taken
    ret,           \* history: the cycle count the last Cpu::execute returned
    irq,           \* history: the interrupt_option of the last handle_interrupts
    steps,         \* history: the number of Cpu::execute calls so far
    frames,        \* history: the number of calls of RustyBoy::run so far
    obs            \* history: the last device access and the cycles fed so far

vars == <<gb, pause, frame_cycles, rpc, prev, act, ret, irq, steps, frames, obs>>

\* let x = v; F(x): v is computed once, and F is applied to its value.
Bind(v, F(_)) == CHOOSE r \in {F(x) : x \in {v}} : TRUE

---------------------------------------------------------------------------
(* Bytes, words and bits (utils.rs)                                        *)

Byte == 0..255

Pow2(n) == 2 ^ n

\* u8 and u16 arithmetic wraps (wrapping_add / wrapping_sub, and the plain
\* operators of a release build).
Wrap8(x) == x % 256

Wrap16(x) == x % 65536

get_bit_val(data, position) == (data \div Pow2(position)) % 2

is_bit_set(data, position) == get_bit_val(data, position) = 1

set_bit(data, position) ==
    IF is_bit_set(data, position) THEN data ELSE data + Pow2(position)

reset_bit(data, position) ==
    IF is_bit_set(data, position) THEN data - Pow2(position) ELSE data

\* data & mask, for masks of the form 2^n - 1 shifted: the low n bits.
LowBits(data, n) == data % Pow2(n)

\* The bitwise AND of two bytes.
BitAnd(a, b) ==
    LET RECURSIVE And(_, _, _)
        And(x, y, i) ==
            IF i = 8 THEN 0
            ELSE (IF is_bit_set(x, i) /\ is_bit_set(y, i) THEN Pow2(i) ELSE 0)
                 + And(x, y, i + 1)
    IN And(a, b, 0)

MAX_CYCLES_PER_FRAME == 70224

CYCLES_PER_SCANLINE == 456

CYCLES_PER_DIVIDER_INCREMENT == 256

MAX_SCANLINE_VALUE == 153

CLOCK_SPEED == 4194304

PROGRAM_COUNTER_INIT == \h0100

STACK_POINTER_INIT == \hFFFE

JOYPAD_REGISTER_ADDR == \hFF00

DIVIDER_REGISTER_ADDR == \hFF04

TIMER_ADDR == \hFF05

TIMER_MODULATOR_ADDR == \hFF06

TIMER_CONTROL_ADDR == \hFF07

INTERRUPT_FLAG_ADDR == \hFF0F

LCD_CONTROL_ADDR == \hFF40

LCD_STATUS_ADDR == \hFF41

CURRENT_SCANLINE_ADDR == \hFF44

CURRENT_SCANLINE_COMPARE_ADDR == \hFF45

BACKGROUND_PALETTE_INDEX_ADDR == \hFF68

BACKGROUND_PALETTE_DATA_ADDR == \hFF69

OBJECT_PALETTE_INDEX_ADDR == \hFF6A

OBJECT_PALETTE_DATA_ADDR == \hFF6B

INTERRUPT_ENABLE_ADDR == \hFFFF

\* AVAILABLE_INTERRUPTS, in priority order; an interrupt's bit is its index
\* (counted from 0) in this array.
AVAILABLE_INTERRUPTS == <<"V_BLANK", "LCD_STAT", "TIMER", "SERIAL", "JOYPAD">>

InterruptBit(interrupt) ==
    CHOOSE i \in 0..4 : AVAILABLE_INTERRUPTS[i + 1] = interrupt

---------------------------------------------------------------------------
(* Rom (rom.rs) and the bank controllers (mbc.rs)                          *)

RAM_BANK_SIZE == \h2000

\* A byte array held without its zeroes: f[i], and f[i] = v.
At(f, i) == IF i \in DOMAIN f THEN f[i] ELSE 0

Put(f, i, v) ==
    [a \in (IF v = 0 THEN DOMAIN f \ {i} ELSE DOMAIN f \cup {i})
        |-> IF a = i THEN v ELSE f[a]]

\* Rom::get_byte: data[addr]. A Rom is its bytes and their number; an index
\* at or beyond the length panics, and -1 stands for the panic.
get_byte(rom, addr) == IF addr < rom.length THEN At(rom.data, addr) ELSE -1

get_cartridge_type(rom) == get_byte(rom, \h0147)

get_number_of_banks(rom) ==
    LET code == get_byte(rom, \h0148)
    IN  CASE code = \h00 -> 2   [] code = \h01 -> 4   [] code = \h02 -> 8
          [] code = \h03 -> 16  [] code = \h04 -> 32  [] code = \h05 -> 64
          [] code = \h06 -> 128 [] code = \h07 -> 256 [] code = \h08 -> 512
          [] code = \h52 -> 72  [] code = \h53 -> 80  [] code = \h54 -> 96
          [] OTHER -> 2

\* Mbc1::new; number_of_rom_banks is the u16 count cast to u8.
Mbc1_new(rom) ==
    [ kind |-> "MBC1",
      memory |-> rom.data,
      length |-> rom.length,
      rom_bank |-> 1,
      ram_bank |-> 0,
      external_ram |-> <<>>,
      enable_ram |-> FALSE,
      number_of_rom_banks |-> Wrap8(get_number_of_banks(rom)),
      banking_mode |-> "ROM" ]

Mbc2_new(rom) ==
    [ kind |-> "MBC2",
      memory |-> rom.data,
      length |-> rom.length,
      rom_bank |-> 1,
      external_ram |-> <<>>,
      enable_ram |-> FALSE ]

Mbc3_new(rom) ==
    [ kind |-> "MBC3",
      memory |-> rom.data,
      length |-> rom.length,
      rom_bank |-> 1,
      ram_bank_or_rtc |-> 0,
      external_ram |-> <<>>,
      enable_ram_and_rtc |-> FALSE,
      number_of_rom_banks |-> Wrap8(get_number_of_banks(rom)),
      rtc_seconds |-> 0, rtc_minutes |-> 0, rtc_hours |-> 0,
      rtc_dl |-> 0, rtc_dh |-> 0 ]

\* get_mbc: the controller of the cartridge type, None for the others.
get_mbc(rom) ==
    LET rom_mode == get_cartridge_type(rom)
    IN  IF rom_mode \in {\h01, \h02, \h03} THEN Mbc1_new(rom)
        ELSE IF rom_mode \in {\h05, \h06} THEN Mbc2_new(rom)
        ELSE IF rom_mode \in {\h0F, \h10, \h11, \h12, \h13} THEN Mbc3_new(rom)
        ELSE [kind |-> "None"]

\* read_rom of Mbc1, Mbc2 and Mbc3 (the same two lines in each):
\* memory[addr + rom_bank * 0x4000], a panic beyond the image.
read_rom(m, addr) ==
    LET resolved_addr == addr + m.rom_bank * \h4000
    IN  IF resolved_addr < m.length THEN At(m.memory, resolved_addr) ELSE -1

Mbc1_read_ram(m, addr) == At(m.external_ram, addr + m.ram_bank * RAM_BANK_SIZE)

Mbc1_write_ram(m, addr, data) ==
    [m EXCEPT !.external_ram = Put(@, addr + m.ram_bank * RAM_BANK_SIZE, data)]

\* Mbc1::handle_banking that does not bump bank 0.
Mbc1_handle_banking_zero(m, addr, data) ==
    IF addr <= \h1FFF THEN [m EXCEPT !.enable_ram = (data % 16 = \h0A)]
    ELSE IF addr <= \h3FFF
         THEN [m EXCEPT !.rom_bank = (@ - (@ % 32)) + (data % 32)]
    ELSE IF addr <= \h5FFF
         THEN IF m.banking_mode = "RAM" THEN [m EXCEPT !.ram_bank = data % 4]
              ELSE [m EXCEPT !.rom_bank = (data - (data % 32)) + (@ % 32)]
    ELSE IF addr <= \h7FFF
         THEN [m EXCEPT !.banking_mode = IF is_bit_set(data, 0) THEN "RAM" ELSE "ROM"]
    ELSE m

\* Mbc1::handle_banking. data & 0x1F is data % 32, data & 0xE0 is
\* data - (data % 32), and the high bits of rom_bank are rom_bank - (rom_bank % 32)
\* (rom_bank stays below 256). The test against number_of_rom_banks only
\* prints.
Mbc1_handle_banking(m, addr, data) ==
    LET Bump(b) == IF b = 0 THEN b + 1 ELSE b
    IN  IF addr <= \h1FFF THEN [m EXCEPT !.enable_ram = (data % 16 = \h0A)]
        ELSE IF addr <= \h3FFF
             THEN [m EXCEPT !.rom_bank = Bump((@ - (@ % 32)) + (data % 32))]
        ELSE IF addr <= \h5FFF
             THEN IF m.banking_mode = "RAM" THEN [m EXCEPT !.ram_bank = data % 4]
                  ELSE [m EXCEPT !.rom_bank = Bump((data - (data % 32)) + (@ % 32))]
        ELSE IF addr <= \h7FFF
             THEN [m EXCEPT !.banking_mode =
                      IF is_bit_set(data, 0) THEN "RAM" ELSE "ROM"]
        ELSE m

\* Mbc2: 512 half-bytes of RAM, echoed through the window.
Mbc2_read_ram(m, addr) == At(m.external_ram, addr % \h200)

Mbc2_write_ram(m, addr, data) ==
    IF m.enable_ram
    THEN [m EXCEPT !.external_ram = Put(@, addr % \h200, data % 16)]
    ELSE m

\* Mbc2::handle_banking: bit 8 of the address tells a ROM bank write from a
\* RAM gate write.
Mbc2_handle_banking(m, addr, data) ==
    IF addr < \h4000
    THEN IF is_bit_set(addr \div 256, 0)
         THEN [m EXCEPT !.rom_bank = IF data % 16 = 0 THEN 1 ELSE data % 16]
         ELSE [m EXCEPT !.enable_ram = (data = \h0A)]
    ELSE m

Mbc3_read_ram(m, addr) ==
    CASE m.ram_bank_or_rtc \in 0..3 ->
             At(m.external_ram, addr + m.ram_bank_or_rtc * RAM_BANK_SIZE)
      [] m.ram_bank_or_rtc = \h08 -> m.rtc_seconds
      [] m.ram_bank_or_rtc = \h09 -> m.rtc_minutes
      [] m.ram_bank_or_rtc = \h0A -> m.rtc_hours
      [] m.ram_bank_or_rtc = \h0B -> m.rtc_dl
      [] m.ram_bank_or_rtc = \h0C -> m.rtc_dh
      [] OTHER -> 0

Mbc3_write_ram(m, addr, data) ==
    IF ~m.enable_ram_and_rtc THEN m
    ELSE CASE m.ram_bank_or_rtc \in 0..3 ->
                  [m EXCEPT !.external_ram =
                      Put(@, addr + m.ram_bank_or_rtc * RAM_BANK_SIZE, data)]
           [] m.ram_bank_or_rtc = \h08 -> [m EXCEPT !.rtc_seconds = data]
           [] m.ram_bank_or_rtc = \h09 -> [m EXCEPT !.rtc_minutes = data]
           [] m.ram_bank_or_rtc = \h0A -> [m EXCEPT !.rtc_hours = data]
           [] m.ram_bank_or_rtc = \h0B -> [m EXCEPT !.rtc_dl = data]
           [] m.ram_bank_or_rtc = \h0C -> [m EXCEPT !.rtc_dh = data]
           [] OTHER -> m

Mbc3_handle_banking(m, addr, data) ==
    IF addr <= \h1FFF THEN [m EXCEPT !.enable_ram_and_rtc = (data % 16 = \h0A)]
    ELSE IF addr <= \h3FFF
         THEN [m EXCEPT !.rom_bank = IF data % 128 = 0 THEN 1 ELSE data % 128]
    ELSE IF addr <= \h5FFF THEN [m EXCEPT !.ram_bank_or_rtc = data]
    ELSE m

MAXIMUM_RAM_BANKS == 4

\* external_ram.len(): [Byte; MAXIMUM_RAM_BANKS * RAM_BANK_SIZE] in Mbc1 and
\* Mbc3, [Byte; 0x200] in Mbc2.
external_ram_len(m) ==
    IF m.kind = "MBC2" THEN \h200 ELSE MAXIMUM_RAM_BANKS * RAM_BANK_SIZE

\* The loop of load_external_ram that replaces the whole RAM by the buffer.
LoadInto_replaces(ram, ram_len, buffer) ==
    [i \in {x \in DOMAIN buffer.data : x < ram_len /\ x < buffer.len}
        |-> buffer.data[i]]

\* The loop of load_external_ram: ram[i] = buffer[i] for i in
\* 0..min(ram_len, buffer.len()).  A buffer (a Vec<Byte>) is its length and
\* its bytes, held without the zeroes.
LoadInto(ram, ram_len, buffer) ==
    LET n == IF ram_len < buffer.len THEN ram_len ELSE buffer.len
    IN  [i \in {x \in DOMAIN buffer.data : x < n} \cup {x \in DOMAIN ram : x >= n}
            |-> IF i < n THEN buffer.data[i] ELSE ram[i]]

\* get_external_ram and load_external_ram of Mbc1, Mbc2 and Mbc3 (the same
\* lines in each).
Mbc_get_external_ram(m) == [len |-> external_ram_len(m), data |-> m.external_ram]

Mbc_load_external_ram(m, buffer) ==
    [m EXCEPT !.external_ram = LoadInto(@, external_ram_len(m), buffer)]

---------------------------------------------------------------------------
(* Mmu (mmu.rs)                                                            *)

\* memory[addr] of the 64 KiB array.
Mem(s, addr) == IF addr \in DOMAIN s.memory THEN s.memory[addr] ELSE 0

\* memory[addr] = data.
MemSet(s, addr, data) ==
    Bind([addr |-> addr, data |-> data], LAMBDA w :
        [s EXCEPT !.memory =
            [a \in (IF w.data = 0 THEN DOMAIN @ \ {w.addr} ELSE DOMAIN @ \cup {w.addr})
                |-> IF a = w.addr THEN w.data ELSE @[a]]])

\* A memory image without its explicit zeroes.
Sparse(f) == [a \in {x \in DOMAIN f : f[x] # 0} |-> f[a]]

\* Mmu::get_external_ram: the controller's RAM, or memory[0xA000..0xC000].
get_external_ram(s) ==
    IF s.mbc.kind = "None"
    THEN [len |-> \hC000 - \hA000,
          data |-> [i \in {a - \hA000 : a \in {x \in DOMAIN s.memory :
                                              x >= \hA000 /\ x < \hC000}}
                       |-> s.memory[\hA000 + i]]]
    ELSE Mbc_get_external_ram(s.mbc)

\* Mmu::load_external_ram.
load_external_ram(s, buffer) ==
    IF s.mbc.kind = "None"
    THEN LET ram_len == \hC000 - \hA000
             ram == LoadInto(get_external_ram(s).data, ram_len, buffer)
         IN  [s EXCEPT !.memory =
                 [a \in {x \in DOMAIN @ : x < \hA000 \/ x >= \hC000}
                         \cup {\hA000 + i : i \in DOMAIN ram}
                     |-> IF a >= \hA000 /\ a < \hC000 THEN ram[a - \hA000] ELSE @[a]]]
    ELSE [s EXCEPT !.mbc = Mbc_load_external_ram(@, buffer)]

\* Rom::is_cgb is not among the sources; the model is of a DMG cartridge.
is_cgb == FALSE

\* Mmu::read_rom_bank, read_ram_bank, write_ram_bank and handle_banking: the
\* controller's method if the cartridge has one, the Rom or the memory array
\* if it has none.
read_rom_bank(s, addr) ==
    IF s.mbc.kind = "None" THEN get_byte(s.rom, addr)
    ELSE read_rom(s.mbc, addr - \h4000)

read_ram_bank(s, addr) ==
    CASE s.mbc.kind = "MBC1" -> Mbc1_read_ram(s.mbc, addr - \hA000)
      [] s.mbc.kind = "MBC2" -> Mbc2_read_ram(s.mbc, addr - \hA000)
      [] s.mbc.kind = "MBC3" -> Mbc3_read_ram(s.mbc, addr - \hA000)
      [] OTHER -> Mem(s, addr)

write_ram_bank(s, addr, data) ==
    CASE s.mbc.kind = "MBC1" ->
             [s EXCEPT !.mbc = Mbc1_write_ram(@, addr - \hA000, data)]
      [] s.mbc.kind = "MBC2" ->
             [s EXCEPT !.mbc = Mbc2_write_ram(@, addr - \hA000, data)]
      [] s.mbc.kind = "MBC3" ->
             [s EXCEPT !.mbc = Mbc3_write_ram(@, addr - \hA000, data)]
      [] OTHER -> MemSet(s, addr, data)

\* handle_banking that also stores the byte in memory.
handle_banking_stores(s, addr, data) == MemSet(s, addr, data)

handle_banking(s, addr, data) ==
    CASE s.mbc.kind = "MBC1" ->
             [s EXCEPT !.mbc = Mbc1_handle_banking(@, addr, data)]
      [] s.mbc.kind = "MBC2" ->
             [s EXCEPT !.mbc = Mbc2_handle_banking(@, addr, data)]
      [] s.mbc.kind = "MBC3" ->
             [s EXCEPT !.mbc = Mbc3_handle_banking(@, addr, data)]
      [] OTHER -> s

\* read_byte that does not look at the access flags.
read_byte_unrestricted(s, addr) ==
    IF addr >= \h4000 /\ addr < \h8000 THEN read_rom_bank(s, addr)
    ELSE IF addr >= \hA000 /\ addr < \hC000 THEN read_ram_bank(s, addr)
    ELSE Mem(s, addr)

read_byte(s, addr) ==
    LET is_reading_restricted_oam ==
            addr >= \hFE00 /\ addr <= \hFE9F /\ ~s.oam_access
        is_reading_restricted_vram ==
            addr >= \h8000 /\ addr <= \h9FFF /\ ~s.vram_access
    IN  IF is_reading_restricted_oam \/ is_reading_restricted_vram THEN \hFF
        ELSE IF addr >= \h4000 /\ addr < \h8000 THEN read_rom_bank(s, addr)
        ELSE IF addr >= \hA000 /\ addr < \hC000 THEN read_ram_bank(s, addr)
        ELSE Mem(s, addr)

\* Mmu::set_button_state and reset_button_state, which hand the button to
\* Joypad::set_button_state (state[button] = 0, pressed) and
\* Joypad::reset_button_state (state[button] = 1, released).
set_button_state(s, button) == [s EXCEPT !.joypad[button] = 0]

\* reset_button_state that leaves the button as it is.
reset_button_state_kept(s, button) == s

reset_button_state(s, button) == [s EXCEPT !.joypad[button] = 1]

\* Joypad::get_buttons_for_mode
get_buttons_for_mode(s, mode) ==
    IF mode = "DIRECTION"
    THEN s.joypad[3] * 8 + s.joypad[2] * 4 + s.joypad[1] * 2 + s.joypad[0]
    ELSE s.joypad[4] * 8 + s.joypad[5] * 4 + s.joypad[6] * 2 + s.joypad[7]

handle_joypad(s, addr, data) ==
    LET mode_bits == (data \div 16) % 4
        hi == data - (data % 16)
    IN  IF mode_bits = 1 THEN MemSet(s, addr, hi + get_buttons_for_mode(s, "ACTION"))
        ELSE IF mode_bits = 2
             THEN MemSet(s, addr, hi + get_buttons_for_mode(s, "DIRECTION"))
        ELSE MemSet(s, addr, hi + 15)

\* do_dma_transfer that leaves a restricted OAM alone.
do_dma_transfer_restricted(s, data) ==
    LET start_addr == data * 256
        RECURSIVE Copy(_, _, _)
        Copy(t, i, n) ==
            IF n = 1
            THEN MemSet(t, \hFE00 + i, read_byte(t, Wrap16(start_addr + i)))
            ELSE Bind(Copy(t, i, n \div 2),
                      LAMBDA u : Copy(u, i + (n \div 2), n - (n \div 2)))
    IN  IF s.oam_access THEN Copy(s, 0, 160) ELSE s

\* The loop for i in 0..0xA0, one byte after the other: Copy(t, i, n) is
\* the n passes that start with pass i, the first half and then the second.
do_dma_transfer(s, data) ==
    LET start_addr == data * 256
        RECURSIVE Copy(_, _, _)
        Copy(t, i, n) ==
            IF n = 1
            THEN MemSet(t, \hFE00 + i, read_byte(t, Wrap16(start_addr + i)))
            ELSE Bind(Copy(t, i, n \div 2),
                      LAMBDA u : Copy(u, i + (n \div 2), n - (n \div 2)))
    IN  Copy(s, 0, 160)

\* do_timer_control_update that does not raise the flag.
do_timer_control_update_silent(s, data) == MemSet(s, TIMER_CONTROL_ADDR, data)

do_timer_control_update(s, data) ==
    MemSet([s EXCEPT !.timer_frequency_changed = TRUE], TIMER_CONTROL_ADDR, data)

\* On a DMG the palette data write lands in the palette index register.
handle_cgb_palette_write(s, addr, data) ==
    IF addr = BACKGROUND_PALETTE_DATA_ADDR
    THEN MemSet(s, BACKGROUND_PALETTE_INDEX_ADDR, data)
    ELSE MemSet(s, OBJECT_PALETTE_INDEX_ADDR, data)

\* write_byte that drops the byte.
write_byte_dropped(s, addr, data) == s

\* write_byte as a plain store.
write_byte_stores(s, addr, data) == MemSet(s, addr, data)

write_byte(s, addr, data) ==
    LET is_writing_restricted_oam ==
            addr >= \hFE00 /\ addr <= \hFE9F /\ ~s.oam_access
        is_writing_restricted_vram ==
            addr >= \h8000 /\ addr <= \h9FFF /\ ~s.vram_access
    IN  IF is_writing_restricted_oam \/ is_writing_restricted_vram THEN s
        ELSE IF addr <= \h7FFF THEN handle_banking(s, addr, data)
        ELSE IF addr <= \h9FFF THEN MemSet(s, addr, data)   \* handle_vram_write
        ELSE IF addr <= \hBFFF THEN write_ram_bank(s, addr, data)
        ELSE IF addr >= \hE000 /\ addr <= \hFDFF
             THEN MemSet(MemSet(s, addr - \h2000, data), addr, data)
        ELSE IF addr >= \hFEA0 /\ addr <= \hFEFF THEN s
        ELSE IF addr = JOYPAD_REGISTER_ADDR THEN handle_joypad(s, addr, data)
        ELSE IF addr \in {DIVIDER_REGISTER_ADDR, CURRENT_SCANLINE_ADDR}
             THEN MemSet(s, addr, 0)
        ELSE IF addr = \hFF46 THEN do_dma_transfer(s, data)
        ELSE IF addr = \hFF4F THEN MemSet(s, addr, data) \* do_vram_bank_switch
        ELSE IF addr = TIMER_CONTROL_ADDR THEN do_timer_control_update(s, data)
        ELSE IF addr \in {BACKGROUND_PALETTE_DATA_ADDR, OBJECT_PALETTE_DATA_ADDR}
             THEN handle_cgb_palette_write(s, addr, data)
        ELSE MemSet(s, addr, data)

update_scanline(s) ==
    MemSet(s, CURRENT_SCANLINE_ADDR, Wrap8(Mem(s, CURRENT_SCANLINE_ADDR) + 1))

\* reset_scanline that leaves LY as it is.
reset_scanline_keeps(s) == s

reset_scanline(s) == MemSet(s, CURRENT_SCANLINE_ADDR, 0)

restrict_oam_access(s) == [s EXCEPT !.oam_access = FALSE]

open_oam_access(s) == [s EXCEPT !.oam_access = TRUE]

restrict_vram_access(s) == [s EXCEPT !.vram_access = FALSE]

open_vram_access(s) == [s EXCEPT !.vram_access = TRUE]

increment_timer_register(s) == MemSet(s, TIMER_ADDR, Wrap8(Mem(s, TIMER_ADDR) + 1))

increment_divider_register(s) ==
    MemSet(s, DIVIDER_REGISTER_ADDR, Wrap8(Mem(s, DIVIDER_REGISTER_ADDR) + 1))

---------------------------------------------------------------------------
(* Interrupts (interrupts.rs)                                              *)

is_interrupt_enabled(s, interrupt_idx) ==
    is_bit_set(read_byte(s, INTERRUPT_ENABLE_ADDR), interrupt_idx)

is_interrupt_requested(s, interrupt_idx) ==
    is_bit_set(read_byte(s, INTERRUPT_FLAG_ADDR), interrupt_idx)

\* get_servicable_interrupt that does not look at IE.
get_requested_interrupt(s) ==
    LET RECURSIVE Scan(_)
        Scan(i) ==
            IF i = Len(AVAILABLE_INTERRUPTS) THEN "None"
            ELSE IF is_interrupt_requested(s, i) THEN AVAILABLE_INTERRUPTS[i + 1]
            ELSE Scan(i + 1)
    IN  Scan(0)

\* The first index of AVAILABLE_INTERRUPTS that is enabled and requested, as
\* the interrupt's name, or "None".
get_servicable_interrupt(s) ==
    LET RECURSIVE Scan(_)
        Scan(i) ==
            IF i = Len(AVAILABLE_INTERRUPTS) THEN "None"
            ELSE IF is_interrupt_enabled(s, i) /\ is_interrupt_requested(s, i)
                 THEN AVAILABLE_INTERRUPTS[i + 1]
            ELSE Scan(i + 1)
    IN  Scan(0)

request_interrupt(s, interrupt) ==
    write_byte(s, INTERRUPT_FLAG_ADDR,
               set_bit(read_byte(s, INTERRUPT_FLAG_ADDR), InterruptBit(interrupt)))

---------------------------------------------------------------------------
(* Timer (timer.rs)                                                        *)

update_divider_register(s, cycles) ==
    LET t == [s EXCEPT !.divider_counter = @ + cycles]
    IN  IF t.divider_counter >= CYCLES_PER_DIVIDER_INCREMENT
        THEN increment_divider_register(
                 [t EXCEPT !.divider_counter = @ - CYCLES_PER_DIVIDER_INCREMENT])
        ELSE t

is_timer_enabled(s) == is_bit_set(read_byte(s, TIMER_CONTROL_ADDR), 2)

\* get_timer_frequency that ignores TAC.
get_timer_frequency_fixed(s) == CLOCK_SPEED \div 4096

get_timer_frequency(s) ==
    LET freq_compare_val == read_byte(s, TIMER_CONTROL_ADDR) % 4
    IN  IF freq_compare_val = 0 THEN CLOCK_SPEED \div 4096
        ELSE IF freq_compare_val = 1 THEN CLOCK_SPEED \div 262144
        ELSE IF freq_compare_val = 2 THEN CLOCK_SPEED \div 65536
        ELSE CLOCK_SPEED \div 16384

\* TimerTick without the overflow.
TimerTick_no_reload(s, freq) ==
    increment_timer_register([s EXCEPT !.timer_counter = @ - freq])

\* One pass of the while loop of Timer::update.
TimerTick(s, freq) ==
    Bind(increment_timer_register([s EXCEPT !.timer_counter = @ - freq]), LAMBDA t :
        IF read_byte(t, TIMER_ADDR) = 0
        THEN Bind(request_interrupt(t, "TIMER"), LAMBDA u :
                 write_byte(u, TIMER_ADDR, read_byte(u, TIMER_MODULATOR_ADDR)))
        ELSE t)

Timer_update(s, cycles) ==
    Bind(update_divider_register(s, cycles), LAMBDA s1 :
    Bind(get_timer_frequency(s1), LAMBDA freq :
        LET s2 == IF s1.timer_frequency_changed
                  THEN [s1 EXCEPT !.timer_counter = 0,
                                  !.timer_frequency_changed = FALSE]
                  ELSE s1
            RECURSIVE Loop(_)
            Loop(t) == IF t.timer_counter >= freq
                       THEN Bind(TimerTick(t, freq), LAMBDA u : Loop(u))
                       ELSE t
        IN  IF is_timer_enabled(s2)
            THEN Loop([s2 EXCEPT !.timer_counter = @ + cycles])
            ELSE s2))

---------------------------------------------------------------------------
(* Ppu (ppu.rs)                                                            *)

is_lcd_enabled(s) == is_bit_set(read_byte(s, LCD_CONTROL_ADDR), 7)

\* (status & 0b11111100) ^ mode
set_lcd_mode(s, mode) ==
    LET current_status == read_byte(s, LCD_STATUS_ADDR)
    IN  write_byte(s, LCD_STATUS_ADDR, current_status - (current_status % 4) + mode)

get_lcd_mode(s) == read_byte(s, LCD_STATUS_ADDR) % 4

update_coincidence_flag(s, val) ==
    LET status == read_byte(s, LCD_STATUS_ADDR)
    IN  write_byte(s, LCD_STATUS_ADDR,
                   IF val THEN set_bit(status, 2) ELSE reset_bit(status, 2))

\* The LcdMode values.
H_BLANK == 0

V_BLANK == 1

SPRITE_SEARCH == 2

LCD_TRANSFER == 3

\* LcdModeStep that restricts OAM in every mode.
LcdModeStep_oam_closed(s, scanline) ==
    Bind(set_lcd_mode(s, IF scanline >= 144 THEN V_BLANK ELSE H_BLANK), LAMBDA t :
        [st |-> [t EXCEPT !.oam_access = FALSE, !.vram_access = TRUE],
         req |-> FALSE])

\* LcdModeStep that takes the VBlank request from the HBlank source bit.
LcdModeStep_hblank_source(s, scanline) ==
    Bind(set_lcd_mode(s, IF scanline >= 144 THEN V_BLANK ELSE H_BLANK), LAMBDA t :
        [st |-> [t EXCEPT !.oam_access = TRUE, !.vram_access = TRUE],
         req |-> is_bit_set(read_byte(t, LCD_STATUS_ADDR), 3)])

\* The mode, the access flags and should_request_stat_interrupt that
\* update_lcd_status chooses with the LCD enabled.  The thresholds are taken
\* from MAX_CYCLES_PER_FRAME, as in the source.
LcdModeStep(s, scanline) ==
    LET max_cycles_per_frame == MAX_CYCLES_PER_FRAME
    IN  IF scanline >= 144
        THEN Bind(set_lcd_mode(s, V_BLANK), LAMBDA t :
                 [st |-> [t EXCEPT !.oam_access = TRUE, !.vram_access = TRUE],
                  req |-> is_bit_set(read_byte(t, LCD_STATUS_ADDR), 4)])
        ELSE IF s.scanline_counter >= max_cycles_per_frame - 80
        THEN Bind(set_lcd_mode(s, SPRITE_SEARCH), LAMBDA t :
                 [st |-> [t EXCEPT !.oam_access = FALSE, !.vram_access = TRUE],
                  req |-> is_bit_set(read_byte(t, LCD_STATUS_ADDR), 5)])
        ELSE IF s.scanline_counter >= max_cycles_per_frame - 80 - 172
        THEN Bind(set_lcd_mode(s, LCD_TRANSFER), LAMBDA t :
                 [st |-> [t EXCEPT !.oam_access = FALSE, !.vram_access = FALSE],
                  req |-> FALSE])
        ELSE Bind(set_lcd_mode(s, H_BLANK), LAMBDA t :
                 [st |-> [t EXCEPT !.oam_access = TRUE, !.vram_access = TRUE],
                  req |-> is_bit_set(read_byte(t, LCD_STATUS_ADDR), 3)])

update_lcd_status(s) ==
    LET scanline == read_byte(s, CURRENT_SCANLINE_ADDR)
        scanline_compare == read_byte(s, CURRENT_SCANLINE_COMPARE_ADDR)
    IN  IF ~is_lcd_enabled(s)
        THEN Bind(reset_scanline([s EXCEPT !.scanline_counter = CYCLES_PER_SCANLINE]),
                  LAMBDA r :
                 [set_lcd_mode(r, H_BLANK) EXCEPT !.oam_access = TRUE,
                                                  !.vram_access = TRUE])
        ELSE Bind(LcdModeStep(s, scanline), LAMBDA m :
             Bind(IF get_lcd_mode(s) # get_lcd_mode(m.st) /\ m.req
                  THEN request_interrupt(m.st, "LCD_STAT")
                  ELSE m.st, LAMBDA s1 :
                 IF scanline = scanline_compare
                 THEN Bind(update_coincidence_flag(s1, TRUE), LAMBDA s2 :
                          request_interrupt(s2, "LCD_STAT"))
                 ELSE update_coincidence_flag(s1, FALSE)))

is_background_enabled(s) == is_bit_set(read_byte(s, LCD_CONTROL_ADDR), 0)

\* Ppu::render_background writes the 160 pixels of row LY, for 0 < LY < 144.
\* The pixels are get_background_tile_pixels(mmu, y_pos), with no window
\* y_pos = SCY + LY: the frame buffer is kept as the rows written so far,
\* each with the y_pos it was rendered from.
render_background(s) ==
    LET current_scanline == read_byte(s, CURRENT_SCANLINE_ADDR)
        y_pos == Wrap8(read_byte(s, \hFF42) + current_scanline)
    IN  IF current_scanline < 144 /\ current_scanline > 0
        THEN [s EXCEPT !.screen =
                 [r \in DOMAIN @ \cup {current_scanline} |->
                     IF r = current_scanline THEN y_pos ELSE @[r]]]
        ELSE s

\* Ppu::draw_scanline.  The sprites are read from an OAM that holds no
\* sprite on any row, so render_sprites writes no pixel.
draw_scanline(s) ==
    IF is_background_enabled(s) \/ is_cgb THEN render_background(s) ELSE s

Ppu_update_graphics(s, cycles) ==
    Bind(update_lcd_status(s), LAMBDA s1 :
        LET s2 == IF is_lcd_enabled(s1)
                  THEN [s1 EXCEPT !.scanline_counter = @ - cycles]
                  ELSE s1
        IN  IF s2.scanline_counter <= 0
            THEN LET s3 == [s2 EXCEPT !.scanline_counter = CYCLES_PER_SCANLINE]
                     scanline == read_byte(s3, CURRENT_SCANLINE_ADDR)
                 IN  Bind(IF scanline = 144 THEN request_interrupt(s3, "V_BLANK")
                          ELSE IF scanline > MAX_SCANLINE_VALUE THEN reset_scanline(s3)
                          ELSE draw_scanline(s3),
                          LAMBDA s4 : update_scanline(s4))
            ELSE s2)

---------------------------------------------------------------------------
(* The opcode tables.  ops.rs (OPCODE_MAP, PREFIX_OPCODE_MAP) is not among *)
(* the sources: the entries below are the LR35902 timings the              *)
(* specification refers to (T-cycles, always a multiple of 4), for the     *)
(* instructions this model covers.  cycles is the count of the taken       *)
(* branch, alt_cycles that of the branch not taken (0: the entry has none).*)

OPCODE_MAP ==
    (\h00 :> [operation |-> "NOP",    cycles |-> 4,  alt_cycles |-> 0]) @@
    (\h18 :> [operation |-> "JR",     cycles |-> 12, alt_cycles |-> 0]) @@
    (\h20 :> [operation |-> "JR",     cycles |-> 12, alt_cycles |-> 8]) @@
    (\h34 :> [operation |-> "INC",    cycles |-> 12, alt_cycles |-> 0]) @@
    (\h36 :> [operation |-> "LD",     cycles |-> 12, alt_cycles |-> 0]) @@
    (\h3E :> [operation |-> "LD",     cycles |-> 8,  alt_cycles |-> 0]) @@
    (\h76 :> [operation |-> "HALT",   cycles |-> 4,  alt_cycles |-> 0]) @@
    (\hC1 :> [operation |-> "POP",    cycles |-> 12, alt_cycles |-> 0]) @@
    (\hC5 :> [operation |-> "PUSH",   cycles |-> 16, alt_cycles |-> 0]) @@
    (\hC9 :> [operation |-> "RET",    cycles |-> 16, alt_cycles |-> 0]) @@
    (\hCB :> [operation |-> "PREFIX", cycles |-> 4,  alt_cycles |-> 0]) @@
    (\hCD :> [operation |-> "CALL",   cycles |-> 24, alt_cycles |-> 0]) @@
    (\hD9 :> [operation |-> "RETI",   cycles |-> 16, alt_cycles |-> 0]) @@
    (\hE0 :> [operation |-> "LDH",    cycles |-> 12, alt_cycles |-> 0]) @@
    (\hE8 :> [operation |-> "ADD_16_BIT", cycles |-> 16, alt_cycles |-> 0]) @@
    (\hEA :> [operation |-> "LD",     cycles |-> 16, alt_cycles |-> 0]) @@
    (\hF0 :> [operation |-> "LDH",    cycles |-> 12, alt_cycles |-> 0]) @@
    (\hF1 :> [operation |-> "POP",    cycles |-> 12, alt_cycles |-> 0]) @@
    (\hF3 :> [operation |-> "DI",     cycles |-> 4,  alt_cycles |-> 0]) @@
    (\hF5 :> [operation |-> "PUSH",   cycles |-> 16, alt_cycles |-> 0]) @@
    (\hFA :> [operation |-> "LD",     cycles |-> 16, alt_cycles |-> 0]) @@
    (\hFB :> [operation |-> "EI",     cycles |-> 4,  alt_cycles |-> 0])

PREFIX_OPCODE_MAP ==
    (\h46 :> [operation |-> "BIT", cycles |-> 12, alt_cycles |-> 0]) @@
    (\h47 :> [operation |-> "BIT", cycles |-> 8,  alt_cycles |-> 0]) @@
    (\h86 :> [operation |-> "RES", cycles |-> 16, alt_cycles |-> 0])

\* opcode.alt_cycles.unwrap_or(opcode.cycles)
AltCycles(opcode) ==
    IF opcode.alt_cycles = 0 THEN opcode.cycles ELSE opcode.alt_cycles

---------------------------------------------------------------------------
(* Cpu (cpu.rs)                                                            *)

ZERO_FLAG == 7

SUBTRACTION_FLAG == 6

HALF_CARRY_FLAG == 5

CARRY_FLAG == 4

\* The halves of a register pair: parts.hi and parts.lo of the union.
Hi(word) == word \div 256

Lo(word) == word % 256

read_memory(s, addr) == read_byte(s, addr)

write_memory(s, addr, data) == write_byte(s, addr, data)

\* sync_cycles that leaves cycle_tracker alone.
sync_cycles_untracked(s, cycles) ==
    Bind(Timer_update(s, cycles), LAMBDA s1 :
        [Ppu_update_graphics([s1 EXCEPT !.timer_cycles = @ + cycles], cycles)
            EXCEPT !.ppu_cycles = @ + cycles])

\* Instructions increment the other components' clocks during execution.
\* timer_cycles and ppu_cycles are history: the cycles handed to
\* Timer::update and to Ppu::update_graphics since execute began.
sync_cycles(s, cycles) ==
    Bind(Timer_update(s, cycles), LAMBDA s1 :
        [Ppu_update_graphics([s1 EXCEPT !.timer_cycles = @ + cycles], cycles)
            EXCEPT !.ppu_cycles = @ + cycles,
                   !.cycle_tracker = Wrap8(@ + cycles)])

\* Operators that read and advance return the record after, with the value
\* read in val.
get_next_byte(s) ==
    [st |-> [s EXCEPT !.program_counter = Wrap16(@ + 1)],
     val |-> read_memory(s, s.program_counter)]

get_next_word(s) ==
    Bind(get_next_byte(s), LAMBDA lo :
    Bind(get_next_byte(lo.st), LAMBDA hi :
        [st |-> hi.st, val |-> hi.val * 256 + lo.val]))

\* data as SignedByte
Signed(data) == IF data >= 128 THEN data - 256 ELSE data

is_zero_flag_set(s) == is_bit_set(Lo(s.af), ZERO_FLAG)

\* update_zero_flag and its three siblings: one bit of af.parts.lo.
update_flag(s, flag, val) ==
    [s EXCEPT !.af = Hi(@) * 256
                     + (IF val THEN set_bit(Lo(@), flag) ELSE reset_bit(Lo(@), flag))]

push_byte_to_stack(s, data) ==
    LET t == [s EXCEPT !.stack_pointer = Wrap16(@ + 65535)]
    IN  write_memory(t, t.stack_pointer, data)

pop_byte_from_stack(s) ==
    [st |-> [s EXCEPT !.stack_pointer = Wrap16(@ + 1)],
     val |-> read_memory(s, s.stack_pointer)]

push_word_to_stack(s, data) ==
    Bind(push_byte_to_stack(s, Hi(data)), LAMBDA t : push_byte_to_stack(t, Lo(data)))

pop_word_from_stack(s) ==
    Bind(pop_byte_from_stack(s), LAMBDA lo :
    Bind(pop_byte_from_stack(lo.st), LAMBDA hi :
        [st |-> hi.st, val |-> hi.val * 256 + lo.val]))

\* toggle_interrupts_enabled that does not wait for the next instruction.
toggle_interrupts_enabled_at_once(s) ==
    IF s.will_disable_interrupts
    THEN [s EXCEPT !.will_disable_interrupts = FALSE, !.interrupts_enabled = FALSE]
    ELSE IF s.will_enable_interrupts
    THEN [s EXCEPT !.will_enable_interrupts = FALSE, !.interrupts_enabled = TRUE]
    ELSE s

\* Reads self.last_op, which execute sets only after this call: the
\* operation of the instruction before the one just executed.
toggle_interrupts_enabled(s) ==
    IF s.last_op = "None" THEN s
    ELSE IF s.last_op = "DI" /\ s.will_disable_interrupts
         THEN [s EXCEPT !.will_disable_interrupts = FALSE,
                        !.interrupts_enabled = FALSE]
    ELSE IF s.last_op = "EI" /\ s.will_enable_interrupts
         THEN [s EXCEPT !.will_enable_interrupts = FALSE,
                        !.interrupts_enabled = TRUE]
    ELSE s

\* do_call that pushes the address of its operand.
do_call_early_push(s, opcode) ==
    Bind(push_word_to_stack(s, s.program_counter), LAMBDA t :
    Bind(get_next_word(t), LAMBDA addr :
        [st |-> [addr.st EXCEPT !.program_counter = addr.val],
         cycles |-> opcode.cycles]))

\* The do_* methods return the record after, with the cycles they return.
do_call(s, opcode) ==
    Bind(get_next_word(s), LAMBDA addr :
        [st |-> [push_word_to_stack(addr.st, addr.st.program_counter)
                    EXCEPT !.program_counter = addr.val],
         cycles |-> opcode.cycles])

do_disable_interrupts(s, opcode) ==
    [st |-> [s EXCEPT !.will_disable_interrupts = TRUE], cycles |-> opcode.cycles]

do_enable_interrupts(s, opcode) ==
    [st |-> [s EXCEPT !.will_enable_interrupts = TRUE], cycles |-> opcode.cycles]

\* halt_ime is history: the interrupt master enable as HALT was executed.
do_halt(s, opcode) ==
    [st |-> [s EXCEPT !.halted = TRUE, !.halt_ime = s.interrupts_enabled],
     cycles |-> opcode.cycles]

\* 0x34, INC (HL)
do_increment(s, opcode) ==
    Bind(Wrap8(read_memory(s, s.hl) + 1), LAMBDA result :
    Bind(sync_cycles(s, 4), LAMBDA s1 :
    Bind(write_memory(s1, s1.hl, result), LAMBDA s2 :
        [st |-> update_flag(update_flag(update_flag(s2, ZERO_FLAG, result = 0),
                                        SUBTRACTION_FLAG, FALSE),
                            HALF_CARRY_FLAG, result % 16 = 0),
         cycles |-> opcode.cycles])))

\* A panic of the emulator: nothing is executed after it.
Panic(s) == [s EXCEPT !.panicked = TRUE]

\* offset.abs() as Word.  The absolute value of -128 does not fit a
\* SignedByte: a build with overflow checks (s.overflow_checks, the debug
\* profile) panics, one without returns -128 again, 0xFF80 as a Word; -1
\* stands for the panic.
AbsAsWord(s, offset) ==
    IF offset = -128 THEN (IF s.overflow_checks THEN -1 ELSE \hFF80) ELSE -offset

\* if offset > 0 { pc += offset as Word } else { pc -= offset.abs() as Word }
\* += and -= panic on overflow in a build with overflow checks and wrap in
\* one without.
JumpBy(s, offset) ==
    IF offset > 0
    THEN IF s.overflow_checks /\ s.program_counter + offset > \hFFFF
         THEN Panic(s)
         ELSE [s EXCEPT !.program_counter = Wrap16(@ + offset)]
    ELSE LET abs == AbsAsWord(s, offset)
         IN  IF abs = -1 \/ (s.overflow_checks /\ s.program_counter < abs)
             THEN Panic(s)
             ELSE [s EXCEPT !.program_counter = Wrap16(@ + 65536 - abs)]

\* 0x18, JR e and 0x20, JR NZ,e.
do_jump_relative(s, opcode) ==
    Bind(get_next_byte(s), LAMBDA b :
        LET offset == Signed(b.val)
            t == b.st
        IN  IF opcode.code = \h18 \/ ~is_zero_flag_set(t)
            THEN [st |-> JumpBy(t, offset), cycles |-> opcode.cycles]
            ELSE [st |-> t, cycles |-> AltCycles(opcode)])

\* 0xE8, ADD SP,e.  (offset as Word) & 0xFF is the operand byte.
do_add_16_bit(s, opcode) ==
    Bind(get_next_byte(s), LAMBDA b :
        LET offset == Signed(b.val)
            sp == b.st.stack_pointer
            t == update_flag(update_flag(update_flag(update_flag(b.st,
                     ZERO_FLAG, FALSE), SUBTRACTION_FLAG, FALSE),
                     CARRY_FLAG, (sp % 256) + b.val > \hFF),
                     HALF_CARRY_FLAG, (sp % 16) + (b.val % 16) > \h0F)
            abs == AbsAsWord(t, offset)
        IN  [st |-> IF offset > 0
                    THEN [t EXCEPT !.stack_pointer = Wrap16(@ + offset)]
                    ELSE IF abs = -1 THEN Panic(t)
                    ELSE [t EXCEPT !.stack_pointer = Wrap16(@ + 65536 - abs)],
             cycles |-> opcode.cycles])

\* do_pop that keeps the low nibble popped into F.
do_pop_unmasked(s, opcode) ==
    Bind(pop_word_from_stack(s), LAMBDA w :
        [st |-> CASE opcode.code = \hC1 -> [w.st EXCEPT !.bc = w.val]
                  [] opcode.code = \hD1 -> [w.st EXCEPT !.de = w.val]
                  [] opcode.code = \hE1 -> [w.st EXCEPT !.hl = w.val]
                  [] opcode.code = \hF1 -> [w.st EXCEPT !.af = w.val],
         cycles |-> opcode.cycles])

\* 0xF1: af.val = pop; af.parts.lo &= 0xF0.
do_pop(s, opcode) ==
    Bind(pop_word_from_stack(s), LAMBDA w :
        [st |-> CASE opcode.code = \hC1 -> [w.st EXCEPT !.bc = w.val]
                  [] opcode.code = \hD1 -> [w.st EXCEPT !.de = w.val]
                  [] opcode.code = \hE1 -> [w.st EXCEPT !.hl = w.val]
                  [] opcode.code = \hF1 ->
                         [w.st EXCEPT !.af = w.val - (w.val % 16)],
         cycles |-> opcode.cycles])

do_push(s, opcode) ==
    [st |-> push_word_to_stack(s, CASE opcode.code = \hC5 -> s.bc
                                    [] opcode.code = \hD5 -> s.de
                                    [] opcode.code = \hE5 -> s.hl
                                    [] opcode.code = \hF5 -> s.af),
     cycles |-> opcode.cycles]

do_load(s, opcode) ==
    [st |-> CASE opcode.code = \h36 ->
                    Bind(sync_cycles(s, 4), LAMBDA s1 :
                    Bind(get_next_byte(s1), LAMBDA b :
                        write_memory(b.st, b.st.hl, b.val)))
              [] opcode.code = \h3E ->
                    Bind(get_next_byte(s), LAMBDA b :
                        [b.st EXCEPT !.af = b.val * 256 + Lo(@)])
              [] opcode.code = \hEA ->
                    Bind(sync_cycles(s, 8), LAMBDA s1 :
                    Bind(get_next_word(s1), LAMBDA w :
                        write_memory(w.st, w.val, Hi(w.st.af))))
              [] opcode.code = \hFA ->
                    Bind(get_next_word(s), LAMBDA w :
                    Bind(sync_cycles(w.st, 8), LAMBDA s1 :
                        [s1 EXCEPT !.af = read_memory(s1, w.val) * 256 + Lo(@)])),
     cycles |-> opcode.cycles]

do_load_h(s, opcode) ==
    [st |-> IF opcode.code = \hE0
            THEN Bind(sync_cycles(s, 4), LAMBDA s1 :
                 Bind(get_next_byte(s1), LAMBDA b :
                     write_memory(b.st, \hFF00 + b.val, Hi(b.st.af))))
            ELSE Bind(get_next_byte(s), LAMBDA b :
                 Bind(sync_cycles(b.st, 4), LAMBDA s1 :
                     [s1 EXCEPT !.af = read_memory(s1, \hFF00 + b.val) * 256 + Lo(@)])),
     cycles |-> opcode.cycles]

\* 0xC9 RET and 0xD9 RETI
do_return(s, opcode) ==
    Bind(pop_word_from_stack(s), LAMBDA w :
        LET t == [w.st EXCEPT !.program_counter = w.val]
        IN  [st |-> IF opcode.code = \hD9
                    THEN [t EXCEPT !.interrupts_enabled = TRUE]
                    ELSE t,
             cycles |-> opcode.cycles])

\* 0x46 BIT 0,(HL) and 0x47 BIT 0,A
do_bit(s, opcode) ==
    Bind(IF opcode.code = \h46
         THEN Bind(sync_cycles(s, 4), LAMBDA t :
                  update_flag(t, ZERO_FLAG, ~is_bit_set(read_memory(t, t.hl), 0)))
         ELSE update_flag(s, ZERO_FLAG, ~is_bit_set(Hi(s.af), 0)), LAMBDA s1 :
        [st |-> update_flag(update_flag(s1, HALF_CARRY_FLAG, TRUE),
                            SUBTRACTION_FLAG, FALSE),
         cycles |-> opcode.cycles])

\* 0x86 RES 0,(HL)
do_res(s, opcode) ==
    Bind(sync_cycles(s, 4), LAMBDA s1 :
    Bind(read_memory(s1, s1.hl), LAMBDA val :
    Bind(sync_cycles(s1, 4), LAMBDA s2 :
        [st |-> write_memory(s2, s2.hl, reset_bit(val, 0)),
         cycles |-> opcode.cycles])))

do_prefix(s) ==
    Bind(read_memory(s, s.program_counter), LAMBDA op :
    Bind([code |-> op] @@ PREFIX_OPCODE_MAP[op], LAMBDA opcode :
        LET t == [s EXCEPT !.program_counter = Wrap16(@ + 1)]
        IN  IF opcode.operation = "BIT" THEN do_bit(t, opcode) ELSE do_res(t, opcode)))

\* The match of Cpu::execute on opcode.operation.
Dispatch(s, opcode) ==
    CASE opcode.operation = "ADD_16_BIT" -> do_add_16_bit(s, opcode)
      [] opcode.operation = "CALL" -> do_call(s, opcode)
      [] opcode.operation = "DI" -> do_disable_interrupts(s, opcode)
      [] opcode.operation = "EI" -> do_enable_interrupts(s, opcode)
      [] opcode.operation = "HALT" -> do_halt(s, opcode)
      [] opcode.operation = "INC" -> do_increment(s, opcode)
      [] opcode.operation = "JR" -> do_jump_relative(s, opcode)
      [] opcode.operation = "LD" -> do_load(s, opcode)
      [] opcode.operation = "LDH" -> do_load_h(s, opcode)
      [] opcode.operation = "NOP" -> [st |-> s, cycles |-> opcode.cycles]
      [] opcode.operation = "POP" -> do_pop(s, opcode)
      [] opcode.operation = "PREFIX" -> do_prefix(s)
      [] opcode.operation = "PUSH" -> do_push(s, opcode)
      [] opcode.operation \in {"RET", "RETI"} -> do_return(s, opcode)

\* The byte at the program counter names an instruction of the tables above.
Decodable(s) ==
    LET op == read_memory(s, s.program_counter)
    IN  /\ op \in DOMAIN OPCODE_MAP
        /\ (~s.halted /\ op = \hCB) =>
              read_memory(s, Wrap16(s.program_counter + 1)) \in DOMAIN PREFIX_OPCODE_MAP

\* The halted path without its sync_cycles(4).
execute_halted_no_sync(s) == [st |-> s, cycles |-> 4]

\* The halted path that takes no time.
execute_halted_free(s) == [st |-> s, cycles |-> 0]

\* What execute does once the CPU is found halted.
execute_halted(s) == [st |-> sync_cycles(s, 4), cycles |-> 4]

\* Cpu::execute: the record after, with the cycle count returned.
execute(s) ==
    Bind([s EXCEPT !.cycle_tracker = 0, !.timer_cycles = 0, !.ppu_cycles = 0],
         LAMBDA s0 :
    Bind(read_memory(s0, s0.program_counter), LAMBDA op :
    Bind([code |-> op] @@ OPCODE_MAP[op], LAMBDA opcode :
        IF s0.halted
        THEN execute_halted(s0)
        ELSE Bind(Dispatch([s0 EXCEPT !.program_counter = Wrap16(@ + 1)], opcode),
                  LAMBDA r :
             Bind([toggle_interrupts_enabled(r.st) EXCEPT !.last_op = opcode.operation],
                  LAMBDA s3 :
                 [st |-> sync_cycles(s3, Wrap8(r.cycles + 256 - s3.cycle_tracker)),
                  cycles |-> r.cycles])))))

\* service_interrupt that leaves the request in IF.
service_interrupt_keeps_request(s, interrupt) ==
    LET s1 == [s EXCEPT !.halted = FALSE]
    IN  IF s1.interrupts_enabled
        THEN Bind(push_word_to_stack([s1 EXCEPT !.interrupts_enabled = FALSE],
                                     s1.program_counter), LAMBDA s4 :
                 [s4 EXCEPT !.program_counter =
                     CASE interrupt = "V_BLANK" -> \h40
                       [] interrupt = "LCD_STAT" -> \h48
                       [] interrupt = "TIMER" -> \h50
                       [] interrupt = "SERIAL" -> \h58
                       [] interrupt = "JOYPAD" -> \h60])
        ELSE s1

\* service_interrupt that leaves the CPU halted.
service_interrupt_stays_halted(s, interrupt) ==
    IF s.interrupts_enabled
    THEN LET interrupt_bit == InterruptBit(interrupt)
             s2 == [s EXCEPT !.interrupts_enabled = FALSE]
         IN  Bind(write_memory(s2, INTERRUPT_FLAG_ADDR,
                      reset_bit(read_memory(s2, INTERRUPT_FLAG_ADDR), interrupt_bit)),
                  LAMBDA s3 :
             Bind(push_word_to_stack(s3, s3.program_counter), LAMBDA s4 :
                 [s4 EXCEPT !.program_counter =
                     CASE interrupt = "V_BLANK" -> \h40
                       [] interrupt = "LCD_STAT" -> \h48
                       [] interrupt = "TIMER" -> \h50
                       [] interrupt = "SERIAL" -> \h58
                       [] interrupt = "JOYPAD" -> \h60]))
    ELSE s

service_interrupt(s, interrupt) ==
    LET s1 == [s EXCEPT !.halted = FALSE]
    IN  IF s1.interrupts_enabled
        THEN LET interrupt_bit == InterruptBit(interrupt)
                 s2 == [s1 EXCEPT !.interrupts_enabled = FALSE]
             IN  Bind(write_memory(s2, INTERRUPT_FLAG_ADDR,
                          reset_bit(read_memory(s2, INTERRUPT_FLAG_ADDR), interrupt_bit)),
                      LAMBDA s3 :
                 Bind(push_word_to_stack(s3, s3.program_counter), LAMBDA s4 :
                     [s4 EXCEPT !.program_counter =
                         CASE interrupt = "V_BLANK" -> \h40
                           [] interrupt = "LCD_STAT" -> \h48
                           [] interrupt = "TIMER" -> \h50
                           [] interrupt = "SERIAL" -> \h58
                           [] interrupt = "JOYPAD" -> \h60]))
        ELSE s1

handle_interrupts(s) ==
    Bind(get_servicable_interrupt(s), LAMBDA interrupt_option :
        IF interrupt_option # "None" THEN service_interrupt(s, interrupt_option) ELSE s)

---------------------------------------------------------------------------
(* The emulator after RustyBoy::new, and the guest programs                *)

\* The bytes Mmu::reset stores that are not 0.
ResetMemory ==
    (\hFF00 :> \hFF) @@ (\hFF10 :> \h80) @@ (\hFF11 :> \hBF) @@ (\hFF12 :> \hF3) @@
    (\hFF14 :> \hBF) @@ (\hFF16 :> \h3F) @@ (\hFF19 :> \hBF) @@ (\hFF1A :> \h7F) @@
    (\hFF1B :> \hFF) @@ (\hFF1E :> \hBF) @@ (\hFF20 :> \hFF) @@ (\hFF23 :> \hBF) @@
    (\hFF24 :> \h77) @@ (\hFF25 :> \hF3) @@ (\hFF26 :> \hF1) @@ (\hFF40 :> \h91) @@
    (\hFF47 :> \hFC) @@ (\hFF48 :> \hFF) @@ (\hFF49 :> \hFF)

\* Mmu::load_rom: the image, a sequence of bytes that starts at the entry
\* point 0x0100 and is 0 everywhere else, copied into memory.
load_rom(image) ==
    LET at == {i \in 1..Len(image) : image[i] # 0}
    IN  [a \in {PROGRAM_COUNTER_INIT + i - 1 : i \in at}
            |-> image[a - PROGRAM_COUNTER_INIT + 1]]

\* Cpu::new and Cpu::reset, Mmu::new and Mmu::reset, Timer::new, Ppu::new,
\* Joypad::new, for a cartridge whose image is the given one.
\* overflow_checks is the build: whether integer overflow panics (the debug
\* profile) or wraps; panicked is history.
Boot(image) ==
    [ program_counter |-> PROGRAM_COUNTER_INIT,
      stack_pointer |-> STACK_POINTER_INIT,
      af |-> \h01B0, bc |-> \h0013, de |-> \h00D8, hl |-> \h014D,
      interrupts_enabled |-> TRUE,
      will_enable_interrupts |-> FALSE,
      will_disable_interrupts |-> FALSE,
      halted |-> FALSE,
      cycle_tracker |-> 0,
      last_op |-> "None",
      memory |-> load_rom(image) @@ ResetMemory,
      oam_access |-> TRUE,
      vram_access |-> TRUE,
      timer_frequency_changed |-> FALSE,
      joypad |-> [b \in 0..7 |-> 1],
      rom |-> [data |-> load_rom(image), length |-> \h8000],
      mbc |-> [kind |-> "None"],
      divider_counter |-> 0,
      timer_counter |-> 0,
      scanline_counter |-> CYCLES_PER_SCANLINE,
      screen |-> <<>>,
      timer_cycles |-> 0,
      ppu_cycles |-> 0,
      halt_ime |-> FALSE,
      overflow_checks |-> FALSE,
      panicked |-> FALSE ]

\* The instructions guest programs are built from, as their bytes.
Instructions ==
    { <<\h00>>,                 \* NOP
      <<\hFB>>,                 \* EI
      <<\hF3>>,                 \* DI
      <<\h76>>,                 \* HALT
      <<\hD9>>,                 \* RETI
      <<\hC9>>,                 \* RET
      <<\hCD, \h10, \h01>>,     \* CALL 0x0110
      <<\h3E, \h04>>,           \* LD A,0x04
      <<\hE0, \h0F>>,           \* LDH (0x0F),A
      <<\hF0, \h0F>>,           \* LDH A,(0x0F)
      <<\h36, \h55>>,           \* LD (HL),0x55
      <<\hEA, \h00, \hC0>>,     \* LD (0xC000),A
      <<\hFA, \h00, \hC0>>,     \* LD A,(0xC000)
      <<\h34>>,                 \* INC (HL)
      <<\hCB, \h46>>,           \* BIT 0,(HL)
      <<\hCB, \h47>>,           \* BIT 0,A
      <<\hCB, \h86>>,           \* RES 0,(HL)
      <<\h20, \h02>> }          \* JR NZ,+2

\* The instructions that drive the interrupt master enable and HALT.
ControlInstructions == { <<\h00>>, <<\hFB>>, <<\hF3>>, <<\h76>> }

\* What the guest has set up before the program under study runs: IE, IF,
\* the timer registers, LYC, HL and the interrupt master enable.
Setups ==
    { \* nothing enabled, the timer off, LY = LYC never again after line 0
      [ie |-> 0, if |-> 0, tac |-> 0, tima |-> 0, lyc |-> 0],
      \* the timer interrupt enabled, TIMA overflows at its first tick
      [ie |-> \h04, if |-> 0, tac |-> \h05, tima |-> \hFF, lyc |-> \h20],
      \* everything enabled; V_BLANK and TIMER requested, the unused bits set
      [ie |-> \hFF, if |-> \hE5, tac |-> 0, tima |-> 0, lyc |-> 0] }

Setup(s, c, ime) ==
    [s EXCEPT !.interrupts_enabled = ime,
              !.hl = \hC000,
              !.memory = Sparse(
                  (INTERRUPT_ENABLE_ADDR :> c.ie) @@ (INTERRUPT_FLAG_ADDR :> c.if)
                  @@ (TIMER_CONTROL_ADDR :> c.tac) @@ (TIMER_ADDR :> c.tima)
                  @@ (CURRENT_SCANLINE_COMPARE_ADDR :> c.lyc) @@ @)]

\* IE & IF & 0x1F is not 0.
Pending(s) ==
    BitAnd(BitAnd(read_byte(s, INTERRUPT_ENABLE_ADDR), read_byte(s, INTERRUPT_FLAG_ADDR)),
           \h1F) # 0

---------------------------------------------------------------------------
(* The frame pump (rusty_boy.rs)                                           *)

MaxSteps == 6

MaxFrames == 1

\* RustyBoy::run is entered: frame_cycles = 0, and the loop is reached
\* unless the emulator is paused.
Run_enter ==
    /\ rpc = "idle"
    /\ ~pause
    /\ frames < MaxFrames
    /\ frame_cycles' = 0
    /\ rpc' = "execute"
    /\ frames' = frames + 1
    /\ prev' = gb
    /\ act' = "Run_enter"
    /\ UNCHANGED <<gb, pause, ret, irq, steps, obs>>

\* RustyBoy::run while paused: the whole call.
Run_paused ==
    /\ rpc = "idle"
    /\ pause
    /\ frames < MaxFrames
    /\ frame_cycles' = 0
    /\ frames' = frames + 1
    /\ prev' = gb
    /\ act' = "Run_paused"
    /\ UNCHANGED <<gb, pause, rpc, ret, irq, steps, obs>>

\* One pass of the loop, up to handle_interrupts: the loop test,
\* self.cpu.execute() and frame_cycles += cycles.
Run_execute(bounded) ==
    /\ rpc = "execute"
    /\ frame_cycles < MAX_CYCLES_PER_FRAME
    /\ bounded => steps < MaxSteps
    /\ ~gb.panicked
    /\ Decodable(gb)
    /\ \E r \in {execute(gb)} :
           /\ gb' = r.st
           /\ ret' = r.cycles
           /\ frame_cycles' = frame_cycles + r.cycles
    /\ rpc' = "interrupts"
    /\ steps' = IF bounded THEN steps + 1 ELSE steps
    /\ prev' = gb
    /\ act' = "Run_execute"
    /\ UNCHANGED <<pause, irq, frames, obs>>

\* The rest of the pass: self.cpu.handle_interrupts().
Run_handle_interrupts ==
    /\ rpc = "interrupts"
    /\ gb' = handle_interrupts(gb)
    /\ irq' = get_servicable_interrupt(gb)
    /\ rpc' = "execute"
    /\ prev' = gb
    /\ act' = "Run_handle_interrupts"
    /\ UNCHANGED <<pause, frame_cycles, ret, steps, frames, obs>>

\* The loop test fails and run returns.
Run_return ==
    /\ rpc = "execute"
    /\ frame_cycles >= MAX_CYCLES_PER_FRAME
    /\ rpc' = "idle"
    /\ prev' = gb
    /\ act' = "Run_return"
    /\ UNCHANGED <<gb, pause, frame_cycles, ret, irq, steps, frames, obs>>

\* RustyBoy::toggle_pause, which the host calls between two frames.
toggle_pause ==
    /\ rpc = "idle"
    /\ frames < MaxFrames
    /\ pause' = ~pause
    /\ prev' = gb
    /\ act' = "toggle_pause"
    /\ UNCHANGED <<gb, frame_cycles, rpc, ret, irq, steps, frames, obs>>

\* The cycle amounts Cpu::sync_cycles hands to Ppu::update_graphics.
FeedCycles == {4, 12}

\* Ppu::update_graphics on its own, as sync_cycles calls it.
Ppu_feed ==
    /\ \E cycles \in FeedCycles :
           /\ gb' = Ppu_update_graphics(gb, cycles)
           /\ ret' = cycles
    /\ prev' = gb
    /\ act' = "Ppu_update_graphics"
    /\ UNCHANGED <<pause, frame_cycles, rpc, irq, steps, frames, obs>>

---------------------------------------------------------------------------
(* The specifications                                                      *)

\* Nothing has been accessed and no cycles have been fed.
NoObs == [addr |-> 0, data |-> 0, val |-> 0, fed |-> 0, tima |-> 0, writes |-> 0]

\* The emulator starts from the given guest states, between two frames.
InitWith(guests, at) ==
    /\ gb \in guests
    /\ pause = FALSE
    /\ frame_cycles = 0
    /\ rpc = at
    /\ prev = gb
    /\ act = "Init"
    /\ ret = 0
    /\ irq = "None"
    /\ steps = 0
    /\ frames = 0
    /\ obs = NoObs

\* The guest programs of Spec: two instructions, then one that drives the
\* interrupt master enable or HALT, then NOPs.
Programs ==
    { a \o b \o c : a \in Instructions, b \in Instructions, c \in ControlInstructions }

\* The guests of Spec.  handle_interrupts has run since IME was last set, so
\* no interrupt is pending with IME set.
Guests ==
    { g \in { Setup(Boot(image), c, ime) :
                image \in Programs, c \in Setups, ime \in BOOLEAN } :
        ~(g.interrupts_enabled /\ Pending(g)) }

Init == InitWith(Guests, "idle")

\* The instruction step: RustyBoy::run's loop for MaxSteps instructions.
Next ==
    \/ Run_enter
    \/ Run_execute(TRUE)
    \/ Run_handle_interrupts

Spec == Init /\ [][Next]_vars

\* An instruction has just completed with any IE, any IF and either IME.
IrqGuests ==
    { Setup(Boot(<<>>), [ie |-> ie, if |-> if, tac |-> 0, tima |-> 0, lyc |-> 0], ime) :
        ie \in Byte, if \in Byte, ime \in BOOLEAN }

InitIrq == InitWith(IrqGuests, "interrupts")

NextIrq == Run_handle_interrupts

SpecIrq == InitIrq /\ [][NextIrq]_vars

\* Whole frames.  The guests: HALT with nothing enabled, for ever; and NOP,
\* LD (0xC000),A, EI, HALT woken by the timer interrupt, whose handler runs
\* through the NOPs of the ROM into the program again.
RunGuests ==
    { Setup(Boot(<<\h76>>), [ie |-> 0, if |-> 0, tac |-> 0, tima |-> 0, lyc |-> 0], TRUE),
      Setup(Boot(<<\h00, \hEA, \h00, \hC0, \hFB, \h76>>),
            [ie |-> \h04, if |-> 0, tac |-> \h05, tima |-> \h08, lyc |-> 0], FALSE) }

InitRun == InitWith(RunGuests, "idle")

NextRun ==
    \/ Run_enter
    \/ Run_paused
    \/ Run_execute(FALSE)
    \/ Run_handle_interrupts
    \/ Run_return
    \/ toggle_pause

\* run is sequential code: once entered, its loop goes on.
SpecRun ==
    /\ InitRun
    /\ [][NextRun]_vars
    /\ WF_vars(Run_execute(FALSE))
    /\ WF_vars(Run_handle_interrupts)
    /\ WF_vars(Run_return)

\* The PPU alone, fed cycles from the state after boot.
InitPpu ==
    InitWith({ Setup(Boot(<<>>), c, FALSE) : c \in {x \in Setups : x.if = 0} }, "idle")

NextPpu == Ppu_feed

SpecPpu == InitPpu /\ [][NextPpu]_vars

\* The Mmu on its own, through its public methods.  The addresses: both
\* ends of VRAM and of OAM, their neighbours, ROM bank 1, cartridge RAM,
\* work RAM and echo RAM.
MmuAddrs ==
    { \h7FFF, \h8000, \h9FFF, \hA000, \hC000, \hFDFF, \hFE00, \hFE9F, \hFEA0 }

MmuData == { \h42, \hFF }

MaxWrites == 2

\* Mmu::write_byte, and the Mmu::read_byte that follows it at once.
Mmu_write ==
    /\ obs.writes < MaxWrites
    /\ \E addr \in MmuAddrs, data \in MmuData :
           \E t \in {write_byte(gb, addr, data)} :
               /\ gb' = t
               /\ obs' = [obs EXCEPT !.addr = addr, !.data = data,
                                     !.val = read_byte(t, addr),
                                     !.writes = @ + 1]
    /\ prev' = gb
    /\ act' = "Mmu_write"
    /\ UNCHANGED <<pause, frame_cycles, rpc, ret, irq, steps, frames>>

\* Mmu::read_byte
Mmu_read ==
    /\ \E addr \in MmuAddrs :
           obs' = [obs EXCEPT !.addr = addr, !.data = 0, !.val = read_byte(gb, addr)]
    /\ prev' = gb
    /\ act' = "Mmu_read"
    /\ UNCHANGED <<gb, pause, frame_cycles, rpc, ret, irq, steps, frames>>

\* restrict_oam_access, open_oam_access, restrict_vram_access and
\* open_vram_access, as the Ppu calls them.
Mmu_access ==
    /\ gb' \in { restrict_oam_access(gb), open_oam_access(gb),
                 restrict_vram_access(gb), open_vram_access(gb) }
    /\ gb' # gb
    /\ prev' = gb
    /\ act' = "Mmu_access"
    /\ UNCHANGED <<pause, frame_cycles, rpc, ret, irq, steps, frames, obs>>

\* update_scanline and increment_divider_register, as the Ppu and the Timer
\* call them, while the register holds 0.
Mmu_count ==
    /\ \/ /\ Mem(gb, CURRENT_SCANLINE_ADDR) = 0
          /\ gb' = update_scanline(gb)
       \/ /\ Mem(gb, DIVIDER_REGISTER_ADDR) = 0
          /\ gb' = increment_divider_register(gb)
    /\ prev' = gb
    /\ act' = "Mmu_count"
    /\ UNCHANGED <<pause, frame_cycles, rpc, ret, irq, steps, frames, obs>>

InitMmu == InitWith({ Boot(<<\h00, \hC9>>) }, "idle")

NextMmu ==
    \/ Mmu_write
    \/ Mmu_read
    \/ Mmu_access

SpecMmu == InitMmu /\ [][NextMmu]_vars

\* The registers that a write resets, written with every value.
Reg_write ==
    /\ \E addr \in {DIVIDER_REGISTER_ADDR, CURRENT_SCANLINE_ADDR}, data \in Byte :
           \E t \in {write_byte(gb, addr, data)} :
               /\ gb' = t
               /\ obs' = [obs EXCEPT !.addr = addr, !.data = data,
                                     !.val = read_byte(t, addr)]
    /\ prev' = gb
    /\ act' = "Reg_write"
    /\ UNCHANGED <<pause, frame_cycles, rpc, ret, irq, steps, frames>>

NextReg ==
    \/ Reg_write
    \/ Mmu_count

SpecReg == InitMmu /\ [][NextReg]_vars

\* The PPU and a guest that writes LCDC and STAT: the LCD switched off and
\* on again, and the mode bits of STAT overwritten.
LcdWrites ==
    { <<LCD_CONTROL_ADDR, \h11>>, <<LCD_CONTROL_ADDR, \h91>>,
      <<LCD_STATUS_ADDR, \h02>>, <<LCD_STATUS_ADDR, \h03>> }

LcdFeedCycles == {12, 24}

MaxLcdWrites == 2

MaxLcdFed == 1368

\* Ppu::update_graphics, as sync_cycles calls it, for MaxLcdFed cycles.
Lcd_feed ==
    /\ obs.fed < MaxLcdFed
    /\ \E cycles \in LcdFeedCycles :
           /\ gb' = Ppu_update_graphics(gb, cycles)
           /\ ret' = cycles
           /\ obs' = [obs EXCEPT !.fed = @ + cycles]
    /\ prev' = gb
    /\ act' = "Ppu_update_graphics"
    /\ UNCHANGED <<pause, frame_cycles, rpc, irq, steps, frames>>

\* The guest's write_byte to LCDC or STAT, between two PPU updates.
Lcd_write ==
    /\ obs.writes < MaxLcdWrites
    /\ \E w \in LcdWrites :
           /\ gb' = write_byte(gb, w[1], w[2])
           /\ obs' = [obs EXCEPT !.addr = w[1], !.data = w[2], !.writes = @ + 1]
    /\ prev' = gb
    /\ act' = "Lcd_write"
    /\ UNCHANGED <<pause, frame_cycles, rpc, ret, irq, steps, frames>>

\* State s after the PPU has been fed n updates of 24 cycles, 19 of which
\* make a scanline.
RECURSIVE AfterUpdates(_, _)
AfterUpdates(s, n) ==
    IF n = 0 THEN s
    ELSE IF n = 1 THEN Ppu_update_graphics(s, 24)
    ELSE Bind(AfterUpdates(s, n \div 2), LAMBDA t : AfterUpdates(t, n - n \div 2))

AfterScanlines(s, n) == AfterUpdates(s, n * (CYCLES_PER_SCANLINE \div 24))

\* The PPU starts after boot, or at the last visible scanline of the first
\* frame.
InitLcd ==
    InitWith({ AfterScanlines(Setup(Boot(<<>>), c, FALSE), n) :
                 c \in {x \in Setups : x.ie = 0}, n \in {0, 143} }, "idle")

NextLcd ==
    \/ Lcd_feed
    \/ Lcd_write

SpecLcd == InitLcd /\ [][NextLcd]_vars

\* The Timer and a guest that writes TAC.  The guest has written TMA = 0x42
\* and TAC before the first update; TIMA is 0 or close to its overflow.
TimerTacs == { \h01, \h04, \h05, \h06, \h07 }

TimerFeedCycles == {4, 12, 24}

MaxTimerFed == 4120

MaxFedAfterWrite == 300

TacWriteBy == 24

MaxTacWrites == 1

\* Timer::update, as sync_cycles calls it.  obs.fed counts the cycles fed
\* since the last write to TAC.
Timer_feed ==
    /\ obs.fed < (IF obs.writes = 0 THEN MaxTimerFed ELSE MaxFedAfterWrite)
    /\ \E cycles \in TimerFeedCycles :
           /\ gb' = Timer_update(gb, cycles)
           /\ ret' = cycles
           /\ obs' = [obs EXCEPT !.fed = @ + cycles]
    /\ prev' = gb
    /\ act' = "Timer_update"
    /\ UNCHANGED <<pause, frame_cycles, rpc, irq, steps, frames>>

\* The guest's write_byte to TAC, between two Timer updates.
Tac_write ==
    /\ obs.writes < MaxTacWrites
    /\ obs.fed <= TacWriteBy
    /\ \E data \in TimerTacs :
           /\ gb' = write_byte(gb, TIMER_CONTROL_ADDR, data)
           /\ obs' = [obs EXCEPT !.addr = TIMER_CONTROL_ADDR, !.data = data,
                                 !.fed = 0, !.tima = Mem(gb, TIMER_ADDR),
                                 !.writes = @ + 1]
    /\ prev' = gb
    /\ act' = "Tac_write"
    /\ UNCHANGED <<pause, frame_cycles, rpc, ret, irq, steps, frames>>

TimerGuests ==
    { write_byte(write_byte(write_byte(Boot(<<>>), TIMER_MODULATOR_ADDR, \h42),
                            TIMER_ADDR, tima),
                 TIMER_CONTROL_ADDR, tac) :
        tac \in TimerTacs, tima \in {0, \hFE} }

InitTimer ==
    /\ gb \in TimerGuests
    /\ pause = FALSE
    /\ frame_cycles = 0
    /\ rpc = "idle"
    /\ prev = gb
    /\ act = "Init"
    /\ ret = 0
    /\ irq = "None"
    /\ steps = 0
    /\ frames = 0
    /\ obs = [NoObs EXCEPT !.tima = Mem(gb, TIMER_ADDR)]

NextTimer ==
    \/ Timer_feed
    \/ Tac_write

SpecTimer == InitTimer /\ [][NextTimer]_vars

---------------------------------------------------------------------------
(* Cartridges with a bank controller, and the memory map seen through
   Mmu::write_byte and Mmu::read_byte                                      *)

\* A cartridge file of the given number of 16 KiB banks: the cartridge type
\* at 0x0147, the ROM size code at 0x0148, and b + 1 in the first byte of
\* bank b.
Cartridge(type, size, banks) ==
    [ data |-> Sparse((\h0147 :> type) @@ (\h0148 :> size)
                      @@ [a \in {b * \h4000 : b \in 0..(banks - 1)}
                             |-> (a \div \h4000) + 1]),
      length |-> banks * \h4000 ]

\* Mmu::new and Mmu::reset with the given Rom: load_rom copies its first
\* 32 KiB into memory and asks get_mbc for the controller.
BootRom(rom) ==
    [Boot(<<>>) EXCEPT
        !.memory = [a \in {x \in DOMAIN rom.data : x < \h8000 /\ x < rom.length}
                       |-> rom.data[a]] @@ ResetMemory,
        !.rom = rom,
        !.mbc = get_mbc(rom)]

\* One cartridge of each kind: no controller, MBC1, MBC2, MBC3.
BusCarts ==
    { Cartridge(\h00, \h00, 2), Cartridge(\h01, \h01, 4),
      Cartridge(\h05, \h01, 4), Cartridge(\h13, \h01, 4) }

\* Both ends of work RAM, of its echo, of high RAM and of the prohibited
\* area, and the DMA register.
BusAddrs ==
    { \hC000, \hDDFF, \hE000, \hFDFF, \hFEA0, \hFEFF, \hFF46, \hFF80, \hFFFE }

\* As a DMA source: 0x40 is the switchable ROM bank, 0x80 is video RAM,
\* 0xFE is OAM itself.
BusData == { \h40, \h80, \hFE }

MaxBusWrites == 1

\* Mmu::write_byte, and the Mmu::read_byte that follows it at once.
Bus_write ==
    /\ obs.writes < MaxBusWrites
    /\ \E addr \in BusAddrs, data \in BusData :
           \E t \in {write_byte(gb, addr, data)} :
               /\ gb' = t
               /\ obs' = [obs EXCEPT !.addr = addr, !.data = data,
                                     !.val = read_byte(t, addr),
                                     !.writes = @ + 1]
    /\ prev' = gb
    /\ act' = "Bus_write"
    /\ UNCHANGED <<pause, frame_cycles, rpc, ret, irq, steps, frames>>

\* restrict_oam_access, open_oam_access, restrict_vram_access and
\* open_vram_access.
Bus_access ==
    /\ gb' \in { restrict_oam_access(gb), open_oam_access(gb),
                 restrict_vram_access(gb), open_vram_access(gb) }
    /\ gb' # gb
    /\ prev' = gb
    /\ act' = "Bus_access"
    /\ UNCHANGED <<pause, frame_cycles, rpc, ret, irq, steps, frames, obs>>

InitBus == InitWith({ BootRom(rom) : rom \in BusCarts }, "idle")

NextBus ==
    \/ Bus_write
    \/ Bus_access

SpecBus == InitBus /\ [][NextBus]_vars

---------------------------------------------------------------------------
(* The bank controllers, driven through Mmu::write_byte                    *)

\* A cartridge without controller, an MBC1 of 4 banks and one of 128, an
\* MBC2 of 16 banks and an MBC3 of 4.
MbcCarts ==
    { Cartridge(\h00, \h00, 2), Cartridge(\h01, \h01, 4), Cartridge(\h03, \h06, 128),
      Cartridge(\h05, \h03, 16), Cartridge(\h13, \h01, 4) }

\* Addresses of the four control ranges of the ROM area; 0x0100 and 0x2100
\* have bit 8 set, which is what MBC2 decodes.
ControlAddrs == { \h0000, \h0100, \h2000, \h2100, \h4000, \h7FFF }

\* Bank 0, bank 1 (also RAM banking mode), the RAM key 0x0A (also bank 10),
\* 0x20 (low five bits 0, high bits 0x20) and 0x3A (bank 26 with high bits
\* 0x20, low nibble 0xA).
ControlData == { \h00, \h01, \h0A, \h20, \h3A }

RamAddrs == { \hA000 }

RamData == { \h5A }

MaxRamWrites == 1

\* write_byte to the ROM area, which Mmu::handle_banking hands to the
\* controller, and the read_byte of the same address that follows.
Mbc_control ==
    /\ \E addr \in ControlAddrs, data \in ControlData :
           \E t \in {write_byte(gb, addr, data)} :
               /\ gb' = t
               /\ obs' = [obs EXCEPT !.addr = addr, !.data = data,
                                     !.val = read_byte(t, addr)]
    /\ prev' = gb
    /\ act' = "Mbc_control"
    /\ UNCHANGED <<pause, frame_cycles, rpc, ret, irq, steps, frames>>

\* write_byte to the cartridge RAM window, which Mmu::write_ram_bank hands
\* to the controller, and the read_byte that follows.
Mbc_ram_write ==
    /\ obs.writes < MaxRamWrites
    /\ \E addr \in RamAddrs, data \in RamData :
           \E t \in {write_byte(gb, addr, data)} :
               /\ gb' = t
               /\ obs' = [obs EXCEPT !.addr = addr, !.data = data,
                                     !.val = read_byte(t, addr),
                                     !.writes = @ + 1]
    /\ prev' = gb
    /\ act' = "Mbc_ram_write"
    /\ UNCHANGED <<pause, frame_cycles, rpc, ret, irq, steps, frames>>

InitMbc == InitWith({ BootRom(rom) : rom \in MbcCarts }, "idle")

NextMbc ==
    \/ Mbc_control
    \/ Mbc_ram_write

SpecMbc == InitMbc /\ [][NextMbc]_vars

---------------------------------------------------------------------------
(* The joypad: the host presses and releases buttons, the guest selects a
   button group by writing the joypad register                             *)

Buttons == 0..7

\* Bits 4 and 5 of the byte the guest writes: the action buttons (0x10), the
\* direction buttons (0x20), neither group (0x30).
JoypadSelects == { \h10, \h20, \h30 }

\* At most this many buttons are held down at once.
MaxPressed == 1

Pressed(s) == { b \in Buttons : s.joypad[b] = 0 }

\* The low nibble of read_byte(0xFF00).
JoypadNibble(s) == read_byte(s, JOYPAD_REGISTER_ADDR) % 16

\* The low nibbles the register shows once the guest has selected the action
\* buttons and the direction buttons, the second one times 16.
JoypadReport(s) ==
    JoypadNibble(write_byte(s, JOYPAD_REGISTER_ADDR, \h10))
    + 16 * JoypadNibble(write_byte(s, JOYPAD_REGISTER_ADDR, \h20))

\* RustyBoy::set_button_state. obs keeps the button, whether it was
\* released (1) or pressed (0), and what the register showed before the
\* call; obs.writes = 1 says that the last call was a set_button_state.
Joy_set ==
    /\ \E k \in Buttons :
           /\ k \in Pressed(gb) \/ Cardinality(Pressed(gb)) < MaxPressed
           /\ gb' = set_button_state(gb, k)
           /\ obs' = [obs EXCEPT !.addr = k, !.data = gb.joypad[k],
                                 !.val = JoypadNibble(gb),
                                 !.tima = JoypadReport(gb),
                                 !.writes = 1]
    /\ prev' = gb
    /\ act' = "Joy_set"
    /\ UNCHANGED <<pause, frame_cycles, rpc, ret, irq, steps, frames>>

\* RustyBoy::reset_button_state. obs.writes = 2 says that it followed the
\* set_button_state of the same button at once.
Joy_reset ==
    /\ \E k \in Buttons :
           /\ gb' = reset_button_state(gb, k)
           /\ obs' = [obs EXCEPT !.writes = IF @ = 1 /\ obs.addr = k THEN 2 ELSE 0]
    /\ prev' = gb
    /\ act' = "Joy_reset"
    /\ UNCHANGED <<pause, frame_cycles, rpc, ret, irq, steps, frames>>

\* The guest writes the joypad register: Mmu::write_byte, handle_joypad.
Joy_select ==
    /\ \E data \in JoypadSelects :
           gb' = write_byte(gb, JOYPAD_REGISTER_ADDR, data)
    /\ obs' = [obs EXCEPT !.writes = 0]
    /\ prev' = gb
    /\ act' = "Joy_select"
    /\ UNCHANGED <<pause, frame_cycles, rpc, ret, irq, steps, frames>>

InitJoy == InitWith({ Boot(<<>>) }, "idle")

NextJoy ==
    \/ Joy_set
    \/ Joy_reset
    \/ Joy_select

SpecJoy == InitJoy /\ [][NextJoy]_vars

\* The guest's writes of SpecStat: the STAT source bits 3, 4 and 5 (with the
\* mode field as written), the LCD off and on.
StatWrites ==
    { <<LCD_STATUS_ADDR, \h08>>, <<LCD_STATUS_ADDR, \h09>>,
      <<LCD_STATUS_ADDR, \h10>>, <<LCD_STATUS_ADDR, \h20>>,
      <<LCD_CONTROL_ADDR, \h11>>, <<LCD_CONTROL_ADDR, \h91>> }

StatFeedCycles == {24, 48}

MaxStatWrites == 2

MaxStatFed == 120

\* The updates of 24 cycles after which the PPU of SpecStat starts: two
\* before the end of scanline 143, and of the last scanline of the frame.
StatStarts == {144 * 19 - 2, 155 * 19 - 2}

\* Ppu::update_graphics, as sync_cycles calls it, for MaxStatFed cycles.
Stat_feed ==
    /\ obs.fed < MaxStatFed
    /\ \E cycles \in StatFeedCycles :
           /\ gb' = Ppu_update_graphics(gb, cycles)
           /\ ret' = cycles
           /\ obs' = [obs EXCEPT !.fed = @ + cycles]
    /\ prev' = gb
    /\ act' = "Ppu_update_graphics"
    /\ UNCHANGED <<pause, frame_cycles, rpc, irq, steps, frames>>

\* The guest's write_byte to STAT or LCDC, between two PPU updates.
Stat_write ==
    /\ obs.writes < MaxStatWrites
    /\ \E w \in StatWrites :
           /\ gb' = write_byte(gb, w[1], w[2])
           /\ obs' = [obs EXCEPT !.addr = w[1], !.data = w[2], !.writes = @ + 1]
    /\ prev' = gb
    /\ act' = "Stat_write"
    /\ UNCHANGED <<pause, frame_cycles, rpc, ret, irq, steps, frames>>

\* The guest's write_byte of 0 to IF: the requests seen so far are taken
\* back, so that the next one shows.
Stat_acknowledge ==
    /\ act = "Ppu_update_graphics"
    /\ Mem(gb, INTERRUPT_FLAG_ADDR) # 0
    /\ gb' = write_byte(gb, INTERRUPT_FLAG_ADDR, 0)
    /\ prev' = gb
    /\ act' = "Stat_acknowledge"
    /\ UNCHANGED <<pause, frame_cycles, rpc, ret, irq, steps, frames, obs>>

\* The PPU late in the first frame, the guest having cleared IF.
InitStat ==
    InitWith({ write_byte(AfterUpdates(Setup(Boot(<<>>), c, FALSE), n),
                          INTERRUPT_FLAG_ADDR, 0) :
                 c \in {x \in Setups : x.ie = 0}, n \in StatStarts }, "idle")

NextStat ==
    \/ Stat_feed
    \/ Stat_write
    \/ Stat_acknowledge

SpecStat == InitStat /\ [][NextStat]_vars

\* The save files of SpecSave: empty, two bytes, and one byte more than the
\* 0x200, the 0x2000 and the 0x8000 bytes of the three sizes of RAM.
SaveBuffers ==
    << [len |-> 0, data |-> <<>>],
       [len |-> 2, data |-> (0 :> \h11) @@ (1 :> \h22)],
       [len |-> \h201, data |-> (0 :> \h33) @@ (\h1FF :> \h44) @@ (\h200 :> \h55)],
       [len |-> \h2001, data |-> (1 :> \h66) @@ (\h1FFF :> \h77) @@ (\h2000 :> \h88)],
       [len |-> \h8001, data |-> (\h7FFF :> \h99) @@ (\h8000 :> \hAA)] >>

\* Both ends of the RAM window and of the 512 bytes of MBC2.
SaveAddrs == { \hA000, \hA001, \hA1FF, \hBFFF }

SaveData == { \h0F }

MaxSaveWrites == 1

MaxLoads == 2

\* The guest opens the RAM gate: write_byte(0x0000, 0x0A).
Save_enable_ram ==
    /\ obs.writes = 0
    /\ gb' = write_byte(gb, \h0000, \h0A)
    /\ obs' = [obs EXCEPT !.addr = 0, !.data = \h0A]
    /\ prev' = gb
    /\ act' = "Save_enable_ram"
    /\ UNCHANGED <<pause, frame_cycles, rpc, ret, irq, steps, frames>>

\* The guest's write_byte to the cartridge RAM window.
Save_ram_write ==
    /\ obs.writes < MaxSaveWrites
    /\ \E addr \in SaveAddrs, data \in SaveData :
           /\ gb' = write_byte(gb, addr, data)
           /\ obs' = [obs EXCEPT !.addr = addr, !.data = data, !.writes = @ + 1]
    /\ prev' = gb
    /\ act' = "Save_ram_write"
    /\ UNCHANGED <<pause, frame_cycles, rpc, ret, irq, steps, frames>>

\* Mmu::load_external_ram with one of the save files; obs.val is its place
\* in SaveBuffers.
Save_load ==
    /\ obs.fed < MaxLoads
    /\ \E k \in DOMAIN SaveBuffers :
           /\ gb' = load_external_ram(gb, SaveBuffers[k])
           /\ obs' = [obs EXCEPT !.val = k, !.fed = @ + 1]
    /\ prev' = gb
    /\ act' = "load_external_ram"
    /\ UNCHANGED <<pause, frame_cycles, rpc, ret, irq, steps, frames>>

\* Mmu::get_external_ram, as the host calls it to write the save file: ret
\* is the length of the slice, and obs.tima is 1 when the call follows a
\* load_external_ram at once.
Save_get ==
    /\ act # "get_external_ram"
    /\ ret' = get_external_ram(gb).len
    /\ obs' = [obs EXCEPT !.tima = IF act = "load_external_ram" THEN 1 ELSE 0]
    /\ act' = "get_external_ram"
    /\ UNCHANGED <<gb, prev, pause, frame_cycles, rpc, irq, steps, frames>>

InitSave == InitWith({ BootRom(rom) : rom \in MbcCarts }, "idle")

NextSave ==
    \/ Save_enable_ram
    \/ Save_ram_write
    \/ Save_load
    \/ Save_get

SpecSave == InitSave /\ [][NextSave]_vars

\* The guests of SpecOps: the emulator after boot with the given bytes in
\* the ROM and in RAM, and PC, SP and AF as the guest's earlier instructions
\* have left them, in a build with or without overflow checks.
OpsGuest(rom, ram, pc, sp, af, checks) ==
    [BootRom([data |-> Sparse(rom), length |-> \h8000]) EXCEPT
        !.memory = Sparse(ram @@ @),
        !.program_counter = pc,
        !.stack_pointer = sp,
        !.af = af,
        !.overflow_checks = checks]

\* The bytes code at the addresses from addr on.
CodeAt(addr, code) == [a \in addr..(addr + Len(code) - 1) |-> code[a - addr + 1]]

\* The word lo, hi at the addresses addr and addr + 1.
WordAt(addr, word) == (addr :> Lo(word)) @@ (Wrap16(addr + 1) :> Hi(word))

\* Stack pointers in work RAM, at the start of the echo of work RAM and in
\* high RAM; the words found on the stack.
StackPointers == { \hC100, \hE000, \hFFFC }

StackWords == { \h0000, \h12FF, \hFF0F, \h80A5 }

\* POP AF; PUSH AF; POP BC over every stack word.
PopGuests ==
    { OpsGuest(CodeAt(\h0100, <<\hF1, \hF5, \hC1>>), WordAt(sp, w),
               \h0100, sp, \h01B0, FALSE) :
        sp \in StackPointers, w \in StackWords }

\* The addresses of the CALL in the ROM, and the addresses called, which
\* hold a RET.
CallSites == { \h0100, \h3FFD, \h7FFD }

CallTargets == { \h0000, \h1234, \h7FFF }

\* CALL nn with RET at nn; and the CALL at 0xFFFD in high RAM, whose return
\* address wraps to 0x0000 (the high byte of nn is IE, which is 0).
CallGuests ==
    { OpsGuest(CodeAt(pc, <<\hCD, Lo(nn), Hi(nn)>>) @@ (nn :> \hC9), <<>>,
               pc, sp, \h01B0, FALSE) :
        pc \in CallSites, nn \in CallTargets, sp \in StackPointers }
    \cup { OpsGuest((\h0034 :> \hC9), CodeAt(\hFFFD, <<\hCD, \h34>>),
                    \hFFFD, sp, \h01B0, FALSE) : sp \in {\hC100, \hE000} }

\* The operands e of JR and ADD SP: -128, -127, -1, 0, 1, 127.
Offsets == { \h80, \h81, \hFF, \h00, \h01, \h7F }

\* JR e, JR NZ,e with Z set and clear, and ADD SP,e, in the ROM at 0x0100 and
\* at 0x0010 (where -128 passes below 0x0000) and, for JR, in high RAM at
\* 0xFFF0 (where 127 passes beyond 0xFFFF); SP at both ends for ADD SP,e.
OffsetGuests ==
    { OpsGuest(CodeAt(pc, <<op, e>>), <<>>, pc, \hFFFE, af, checks) :
        pc \in {\h0100, \h0010}, op \in {\h18, \h20}, e \in Offsets,
        af \in {\h01B0, \h0130}, checks \in BOOLEAN }
    \cup { OpsGuest(<<>>, CodeAt(\hFFF0, <<op, e>>), \hFFF0, \hFFFE, \h0130, checks) :
            op \in {\h18, \h20}, e \in Offsets, checks \in BOOLEAN }
    \cup { OpsGuest(CodeAt(\h0100, <<\hE8, e>>), <<>>, \h0100, sp, \h01B0, checks) :
            e \in Offsets, sp \in {\hFFFE, \h0010, \hC0F8}, checks \in BOOLEAN }

InitOps == InitWith(PopGuests \cup CallGuests \cup OffsetGuests, "idle")

SpecOps == InitOps /\ [][Next]_vars

---------------------------------------------------------------------------
(* The claims                                                              *)

\* The opcode Cpu::execute fetches in state s.
OpAt(s) == read_byte(s, s.program_counter)

\* IE and IF of state s.
IE(s) == Mem(s, INTERRUPT_ENABLE_ADDR)

IF_(s) == Mem(s, INTERRUPT_FLAG_ADDR)

\* The lowest of the bits 0..4 that is set in both bytes.
LowestCommon(x, y) ==
    CHOOSE i \in 0..4 :
        /\ is_bit_set(x, i) /\ is_bit_set(y, i)
        /\ \A j \in 0..4 : j < i => ~(is_bit_set(x, j) /\ is_bit_set(y, j))

\* The interrupts by bit, and their vectors.
ByBit == <<"V_BLANK", "LCD_STAT", "TIMER", "SERIAL", "JOYPAD">>

Vector == <<\h40, \h48, \h50, \h58, \h60>>

\* From state p the interrupt of bit i has been serviced: the request is
\* cleared and no other, IME is clear, PC is pushed low byte first at the new
\* SP, and PC is the vector.
Serviced(p, s, i) ==
    /\ IF_(s) = IF_(p) - Pow2(i)
    /\ ~s.interrupts_enabled
    /\ s.stack_pointer = Wrap16(p.stack_pointer + 65534)
    /\ Mem(s, s.stack_pointer) = Lo(p.program_counter)
    /\ Mem(s, Wrap16(s.stack_pointer + 1)) = Hi(p.program_counter)
    /\ s.program_counter = Vector[i + 1]

C2_InterruptService ==
    act = "Run_handle_interrupts" =>
        /\ (prev.interrupts_enabled /\ Pending(prev)) =>
               Serviced(prev, gb, LowestCommon(IE(prev), IF_(prev)))
        /\ ~prev.interrupts_enabled =>
               /\ gb.memory = prev.memory
               /\ gb.stack_pointer = prev.stack_pointer
               /\ gb.program_counter = prev.program_counter

\* C2: V_BLANK is serviced while LCD_STAT, TIMER and the unused bits stay
\* requested.
C2_Witness ==
    /\ act = "Run_handle_interrupts"
    /\ prev.interrupts_enabled
    /\ IE(prev) = \hFF
    /\ IF_(prev) = \hE7
    /\ IF_(gb) = \hE6
    /\ gb.program_counter = \h40

\* C3: servicing an interrupt takes 20 T-cycles: the Timer and the PPU are
\* advanced by 20 cycles.
C3_ServiceTakes20 ==
    (act = "Run_handle_interrupts" /\ prev.interrupts_enabled /\ Pending(prev)) =>
        /\ gb.timer_cycles = prev.timer_cycles + 20
        /\ gb.ppu_cycles = prev.ppu_cycles + 20

\* C3: the timer interrupt has been serviced.
C3_Witness ==
    /\ act = "Run_handle_interrupts"
    /\ prev.interrupts_enabled
    /\ Pending(prev)
    /\ gb.program_counter = \h50

\* C4: get_servicable_interrupt returns the interrupt of the lowest bit of
\* 0..4 set in both IE and IF, and nothing exactly when IE & IF & 0x1F = 0;
\* it is a function of these five bits alone.
C4_LowestEnabledRequested ==
    act = "Run_handle_interrupts" =>
        irq = IF BitAnd(BitAnd(IE(prev), IF_(prev)), \h1F) = 0
              THEN "None"
              ELSE ByBit[LowestCommon(IE(prev), IF_(prev)) + 1]

\* C4: TIMER is returned although LCD_STAT is requested (not enabled) and
\* the bits 5..7 are set in both registers.
C4_Witness ==
    /\ act = "Run_handle_interrupts"
    /\ IE(prev) = \hFC
    /\ IF_(prev) = \hE6
    /\ irq = "TIMER"

\* C5, as stated: EI executed with IME = 0 ends with IME = 0, and the
\* instruction after an EI ends with IME = 1.
C5_EiDelay ==
    act = "Run_execute" =>
        /\ (~prev.halted /\ OpAt(prev) = \hFB /\ ~prev.interrupts_enabled) =>
               ~gb.interrupts_enabled
        /\ (prev.last_op = "EI" /\ prev.will_enable_interrupts) =>
               gb.interrupts_enabled

\* C5, amended: EI executed with IME = 0, and not itself the instruction
\* after an EI whose enable is pending, ends with IME = 0; the instruction
\* after an EI ends with IME = 1.
C5_EiDelayAfterOther ==
    act = "Run_execute" =>
        /\ (/\ ~prev.halted /\ OpAt(prev) = \hFB /\ ~prev.interrupts_enabled
            /\ ~(prev.last_op = "EI" /\ prev.will_enable_interrupts)) =>
               ~gb.interrupts_enabled
        /\ (prev.last_op = "EI" /\ prev.will_enable_interrupts) =>
               gb.interrupts_enabled

\* C5: the NOP after an EI that was executed with IME = 0 has completed.
C5_Witness ==
    /\ act = "Run_execute"
    /\ prev.last_op = "EI"
    /\ prev.will_enable_interrupts
    /\ ~prev.interrupts_enabled
    /\ OpAt(prev) = \h00
    /\ gb.interrupts_enabled

\* C6: EI; DI leaves IME = 0 once DI has completed.
C6_EiDiLeavesImeClear ==
    (act = "Run_execute" /\ ~prev.halted /\ prev.last_op = "EI" /\ OpAt(prev) = \hF3) =>
        ~gb.interrupts_enabled

\* C6: DI has completed right after an EI that was executed with IME = 0.
C6_Witness ==
    /\ act = "Run_execute"
    /\ ~prev.halted
    /\ prev.last_op = "EI"
    /\ ~prev.interrupts_enabled
    /\ OpAt(prev) = \hF3

C8_HaltWakes ==
    /\ (/\ act \in {"Run_execute", "Run_handle_interrupts"}
        /\ prev.halted /\ prev.halt_ime /\ ~Pending(prev)) =>
           gb.halted /\ gb.program_counter = prev.program_counter
    /\ (/\ act = "Run_handle_interrupts"
        /\ prev.halted /\ prev.halt_ime /\ Pending(prev)) =>
           ~gb.halted /\ Serviced(prev, gb, LowestCommon(IE(prev), IF_(prev)))

\* C8, amended: the same of a halted CPU whose IME is 1 when the HALT step
\* has ended (no DI was pending as HALT was executed).
C8_HaltWakesWithIme ==
    /\ (/\ act \in {"Run_execute", "Run_handle_interrupts"}
        /\ prev.halted /\ prev.interrupts_enabled /\ ~Pending(prev)) =>
           gb.halted /\ gb.program_counter = prev.program_counter
    /\ (/\ act = "Run_handle_interrupts"
        /\ prev.halted /\ prev.interrupts_enabled /\ Pending(prev)) =>
           ~gb.halted /\ Serviced(prev, gb, LowestCommon(IE(prev), IF_(prev)))

\* C8: the timer interrupt wakes the halted CPU and is serviced.
C8_Witness ==
    /\ act = "Run_handle_interrupts"
    /\ prev.halted
    /\ prev.halt_ime
    /\ prev.interrupts_enabled
    /\ Pending(prev)
    /\ ~gb.halted
    /\ gb.program_counter = \h50

C10_ModeSequence ==
    (act = "Ppu_update_graphics" /\ is_lcd_enabled(prev)
        /\ Mem(prev, CURRENT_SCANLINE_ADDR) = 0) =>
        LET ModeAt(dot) == IF dot < 80 THEN 2 ELSE IF dot < 80 + 172 THEN 3 ELSE 0
            before == CYCLES_PER_SCANLINE - prev.scanline_counter
        IN  get_lcd_mode(gb) \in {ModeAt(before), ModeAt(before + ret)}

\* C10: update_graphics has run at the first dot of scanline 0.
C10_Witness ==
    /\ act = "Ppu_update_graphics"
    /\ is_lcd_enabled(prev)
    /\ Mem(prev, CURRENT_SCANLINE_ADDR) = 0
    /\ prev.scanline_counter = CYCLES_PER_SCANLINE

\* The address lies in OAM, in VRAM.
InOam(a) == a >= \hFE00 /\ a <= \hFE9F

InVram(a) == a >= \h8000 /\ a <= \h9FFF

\* The access to address a is restricted in state s.
Restricted(s, a) == (InOam(a) /\ ~s.oam_access) \/ (InVram(a) /\ ~s.vram_access)

\* State s with both access flags open.
Opened(s) == [s EXCEPT !.oam_access = TRUE, !.vram_access = TRUE]

C20_ResetOnWrite ==
    /\ \A r \in {DIVIDER_REGISTER_ADDR, CURRENT_SCANLINE_ADDR} : \A v \in Byte :
           read_byte(write_byte(gb, r, v), r) = 0
    /\ act = "Reg_write" => obs.val = 0

\* C20: LY held 1, 0xFF has been written to it, and it reads 0.
C20_Witness ==
    /\ act = "Reg_write"
    /\ obs.addr = CURRENT_SCANLINE_ADDR
    /\ obs.data = \hFF
    /\ Mem(prev, CURRENT_SCANLINE_ADDR) = 1
    /\ obs.val = 0

\* LY of state s.
LY(s) == Mem(s, CURRENT_SCANLINE_ADDR)

\* C13: in the PPU update in which LY changes from 143 to 144, the VBlank
\* interrupt is requested: IF bit 0 is set when LY has just become 144.
C13_VBlankAtEntry ==
    (act = "Ppu_update_graphics" /\ LY(prev) = 143 /\ LY(gb) = 144) =>
        is_bit_set(IF_(gb), 0)

\* C13: LY has just changed from 143 to 144.
C13_Witness ==
    /\ act = "Ppu_update_graphics"
    /\ LY(prev) = 143
    /\ LY(gb) = 144

\* C14: with the LCD enabled and no guest write to LY, LY stays in 0..153 and
\* a PPU update leaves it or takes it to its successor in 0, 1, ..., 153, 0.
C14_ScanlineCycle ==
    /\ LY(gb) <= MAX_SCANLINE_VALUE
    /\ act = "Ppu_update_graphics" =>
           LY(gb) \in {LY(prev), (LY(prev) + 1) % (MAX_SCANLINE_VALUE + 1)}

\* C14: the scanline counter has rolled over at the end of the VBlank period.
C14_Witness ==
    /\ act = "Ppu_update_graphics"
    /\ LY(prev) >= MAX_SCANLINE_VALUE
    /\ LY(gb) # LY(prev)

\* C15: a PPU update that finds LY = LYC sets STAT bit 2, and requests
\* LCD_STAT for the coincidence only if STAT bit 6 is set: with the STAT bits
\* 3..6 clear no update sets IF bit 1.
C15_CoincidenceInterrupt ==
    (act = "Ppu_update_graphics" /\ is_lcd_enabled(prev)) =>
        /\ LY(prev) = Mem(prev, CURRENT_SCANLINE_COMPARE_ADDR) =>
               is_bit_set(Mem(gb, LCD_STATUS_ADDR), 2)
        /\ (Mem(prev, LCD_STATUS_ADDR) \div 8) % 16 = 0 =>
               is_bit_set(IF_(gb), 1) = is_bit_set(IF_(prev), 1)

\* C15: a PPU update has found LY = LYC with STAT bit 6 clear.
C15_Witness ==
    /\ act = "Ppu_update_graphics"
    /\ is_lcd_enabled(prev)
    /\ LY(prev) = Mem(prev, CURRENT_SCANLINE_COMPARE_ADDR)
    /\ ~is_bit_set(Mem(prev, LCD_STATUS_ADDR), 6)
    /\ is_bit_set(Mem(gb, LCD_STATUS_ADDR), 2)

\* C11: after every PPU update with the LCD enabled the access flags match
\* the STAT mode: OAM is restricted exactly in the modes 2 and 3, VRAM
\* exactly in mode 3.
C11_AccessMatchesMode ==
    (act = "Ppu_update_graphics" /\ is_lcd_enabled(prev)) =>
        /\ gb.oam_access = (get_lcd_mode(gb) \notin {SPRITE_SEARCH, LCD_TRANSFER})
        /\ gb.vram_access = (get_lcd_mode(gb) # LCD_TRANSFER)

\* C11: the guest has written mode 3 into STAT during VBlank, and the next
\* PPU update has set mode 1 with OAM and VRAM open.
C11_Witness ==
    /\ act = "Ppu_update_graphics"
    /\ is_lcd_enabled(prev)
    /\ get_lcd_mode(prev) = LCD_TRANSFER
    /\ get_lcd_mode(gb) = V_BLANK
    /\ gb.oam_access
    /\ gb.vram_access

\* C16: a PPU update with LCDC bit 7 clear resets LY to 0, the STAT mode to
\* 0 and the scanline counter to 456, opens OAM and VRAM, draws no scanline
\* (the frame buffer stays as it is) and requests no VBlank interrupt.
C16_LcdDisabled ==
    (act = "Ppu_update_graphics" /\ ~is_lcd_enabled(prev)) =>
        /\ LY(gb) = 0
        /\ get_lcd_mode(gb) = H_BLANK
        /\ gb.scanline_counter = CYCLES_PER_SCANLINE
        /\ gb.oam_access
        /\ gb.vram_access
        /\ gb.screen = prev.screen
        /\ IF_(gb) = IF_(prev)

\* C16: the LCD was switched off in the middle of scanline 2, with row 1 in
\* the frame buffer, and the PPU has been updated.
C16_Witness ==
    /\ act = "Ppu_update_graphics"
    /\ ~is_lcd_enabled(prev)
    /\ LY(prev) = 2
    /\ prev.scanline_counter < CYCLES_PER_SCANLINE
    /\ DOMAIN prev.screen = {1}

\* TIMA, TMA and TAC of state s.
TIMA(s) == Mem(s, TIMER_ADDR)

TMA(s) == Mem(s, TIMER_MODULATOR_ADDR)

TAC(s) == Mem(s, TIMER_CONTROL_ADDR)

\* The T-cycles per TIMA tick that TAC bits 1-0 select.
Threshold(tac) == <<1024, 16, 64, 256>>[(tac % 4) + 1]

\* TIMA after n ticks from t: each tick adds 1, and the tick from 0xFF loads
\* tma.
RECURSIVE AfterTicks(_, _, _)
AfterTicks(t, tma, n) ==
    IF n = 0 THEN t ELSE AfterTicks(IF t = \hFF THEN tma ELSE t + 1, tma, n - 1)

\* One of the first n ticks from t is the tick from 0xFF.
RECURSIVE Overflows(_, _, _)
Overflows(t, tma, n) ==
    /\ n > 0
    /\ t = \hFF \/ Overflows(t + 1, tma, n - 1)

\* The ticks of the last Timer update: the prescaler as the update found it
\* (0 after a write to TAC) and the cycles fed, by the frequency.
TicksOfUpdate ==
    ((IF prev.timer_frequency_changed THEN 0 ELSE prev.timer_counter) + ret)
        \div get_timer_frequency(prev)

\* C17: with the timer enabled every tick increments TIMA modulo 256; the
\* tick from 0xFF loads TMA and sets IF bit 2, and no other tick sets it.
\* With TAC = 0x05, TMA = 0x42 and TIMA = 0, TIMA is cycles / 16 with IF bit 2
\* clear for the first 16 * 256 cycles, and 0x42 with IF bit 2 set after them.
C17_TimerOverflow ==
    (act = "Timer_update" /\ is_timer_enabled(prev)) =>
        /\ TIMA(gb) = AfterTicks(TIMA(prev), TMA(prev), TicksOfUpdate)
        /\ is_bit_set(IF_(gb), 2) =
               (is_bit_set(IF_(prev), 2)
                    \/ Overflows(TIMA(prev), TMA(prev), TicksOfUpdate))
        /\ (TAC(gb) = \h05 /\ TMA(gb) = \h42 /\ obs.tima = 0 /\ obs.writes = 0) =>
               /\ obs.fed < 16 * 256 =>
                      TIMA(gb) = obs.fed \div 16 /\ ~is_bit_set(IF_(gb), 2)
               /\ obs.fed = 16 * 256 =>
                      TIMA(gb) = \h42 /\ is_bit_set(IF_(gb), 2)

\* C17: TAC = 0x05, TMA = 0x42, TIMA from 0: the update that completes
\* 16 * 256 cycles has taken TIMA from 0xFF to 0x42.
C17_Witness ==
    /\ act = "Timer_update"
    /\ TAC(gb) = \h05
    /\ obs.tima = 0
    /\ obs.writes = 0
    /\ obs.fed = 16 * 256
    /\ TIMA(prev) = \hFF
    /\ TIMA(gb) = \h42
    /\ is_bit_set(IF_(gb), 2)

\* C18: the prescaler and TIMA change only while TAC bit 2 is set; while it
\* is set, of the cycles fed since the last write to TAC every full threshold
\* (0 -> 1024, 1 -> 16, 2 -> 64, 3 -> 256) has ticked TIMA once and the rest
\* is in the prescaler, however the cycles were split into updates.
C18_Prescaler ==
    act = "Timer_update" =>
        IF is_timer_enabled(prev)
        THEN /\ gb.timer_counter = obs.fed % Threshold(TAC(gb))
             /\ TIMA(gb) = AfterTicks(obs.tima, TMA(gb), obs.fed \div Threshold(TAC(gb)))
        ELSE /\ TIMA(gb) = TIMA(prev)
             /\ gb.timer_counter =
                    (IF prev.timer_frequency_changed THEN 0 ELSE prev.timer_counter)

\* C18: TAC = 0x04: 1028 cycles, fed 4, 12 or 24 at a time, have ticked TIMA
\* once and left 4 in the prescaler.
C18_Witness ==
    /\ act = "Timer_update"
    /\ TAC(gb) = \h04
    /\ obs.fed = 1028
    /\ TIMA(gb) = obs.tima + 1
    /\ gb.timer_counter = 4

\* C19: a write to TAC stores the value and sets the flag; the next
\* Timer::update clears the flag and counts the prescaler from 0, so TIMA
\* does not tick before a full threshold has been fed from that update on.
C19_TacWriteResets ==
    /\ act = "Tac_write" =>
           TAC(gb) = obs.data /\ gb.timer_frequency_changed
    /\ act = "Timer_update" =>
           /\ ~gb.timer_frequency_changed
           /\ prev.timer_frequency_changed =>
                  gb.timer_counter =
                      (IF is_timer_enabled(prev) THEN ret % Threshold(TAC(prev)) ELSE 0)
           /\ (is_timer_enabled(prev) /\ obs.fed < Threshold(TAC(prev))) =>
                  TIMA(gb) = obs.tima

\* C19: TAC was written with 12 cycles in the prescaler, and the next update
\* has counted its 4 cycles from 0.
C19_Witness ==
    /\ act = "Timer_update"
    /\ obs.writes = 1
    /\ prev.timer_frequency_changed
    /\ prev.timer_counter = 12
    /\ is_timer_enabled(prev)
    /\ ret = 4
    /\ gb.timer_counter = 4

---------------------------------------------------------------------------
(* Claims on the memory map                                                *)

InWram(a) == a >= \hC000 /\ a <= \hDDFF

InHram(a) == a >= \hFF80 /\ a <= \hFFFE

InEcho(a) == a >= \hE000 /\ a <= \hFDFF

InProhibited(a) == a >= \hFEA0 /\ a <= \hFEFF

\* C22: a write_byte(a, v) to work RAM (0xC000..0xDDFF) or high RAM
\* (0xFF80..0xFFFE) followed by read_byte(a) returns v, whatever the access
\* flags are and whatever controller the cartridge has.
C22_WriteThenRead ==
    (act = "Bus_write" /\ (InWram(obs.addr) \/ InHram(obs.addr)))
        => obs.val = obs.data

\* C22 happens: 0x40 written to the last byte of work RAM of an MBC3
\* cartridge while OAM and video RAM are both restricted, and read back.
C22_Witness ==
    /\ act = "Bus_write"
    /\ obs.addr = \hDDFF
    /\ obs.data = \h40
    /\ obs.val = \h40
    /\ gb.mbc.kind = "MBC3"
    /\ ~gb.oam_access
    /\ ~gb.vram_access

\* C22 happens in high RAM as well, on a cartridge without a controller.
C22_WitnessHram ==
    /\ act = "Bus_write"
    /\ obs.addr = \hFFFE
    /\ obs.val = \h80
    /\ gb.mbc.kind = "None"

\* The echo addresses the bus is driven at.
EchoAddrs == { a \in BusAddrs : InEcho(a) }

\* C23: echo mirror: after any sequence of writes, to the echo region
\* 0xE000..0xFDFF or to work RAM 0xC000..0xDDFF, read_byte(a) equals
\* read_byte(a - 0x2000) for every a in the echo region.
C23_EchoMirror ==
    \A a \in EchoAddrs : read_byte(gb, a) = read_byte(gb, a - \h2000)

\* C23 fails after a write to work RAM: the byte is read back at 0xC000 and
\* the echo address 0xE000 still reads 0.
C23_Witness ==
    /\ act = "Bus_write"
    /\ obs.addr = \hC000
    /\ read_byte(gb, \hC000) = \h40
    /\ read_byte(gb, \hE000) = 0
    /\ read_byte(prev, \hC000) = 0

\* C24: for an address in the prohibited region 0xFEA0..0xFEFF, write_byte
\* changes nothing and read_byte returns 0xFF in every reachable state.
C24_Prohibited ==
    /\ \A a \in { x \in BusAddrs : InProhibited(x) } : read_byte(gb, a) = \hFF
    /\ (act = "Bus_write" /\ InProhibited(obs.addr)) => gb = prev

\* C24 fails in its second half: a write to 0xFEA0 has changed nothing, and
\* the read that follows returns 0.
C24_Witness ==
    /\ act = "Bus_write"
    /\ obs.addr = \hFEA0
    /\ obs.data = \h80
    /\ gb = prev
    /\ obs.val = 0

\* The first half of C24 holds: a write to the prohibited region changes
\* nothing.
C24_WriteIgnored ==
    (act = "Bus_write" /\ InProhibited(obs.addr)) => gb = prev

\* C25: a write of v to 0xFF46 copies 160 bytes to OAM at once: afterwards
\* the OAM byte 0xFE00 + i is what read_byte((v << 8) + i) returned when the
\* write was made, for every i in 0..159, nothing outside 0xFE00..0xFE9F has
\* changed, and the copy is made whether or not OAM access is restricted.
C25_Dma ==
    (act = "Bus_write" /\ obs.addr = \hFF46) =>
        /\ \A i \in 0..159 :
               Mem(gb, \hFE00 + i) = read_byte(prev, obs.data * 256 + i)
        /\ \A a \in (DOMAIN gb.memory \cup DOMAIN prev.memory) :
               ~InOam(a) => Mem(gb, a) = Mem(prev, a)
        /\ [gb EXCEPT !.memory = prev.memory] = prev

\* C25 happens: with OAM access restricted, a DMA from 0x4000 has put the
\* first byte of ROM bank 1, the 2 that the cartridge holds there, into the
\* first byte of OAM, which was 0.
C25_Witness ==
    /\ act = "Bus_write"
    /\ obs.addr = \hFF46
    /\ obs.data = \h40
    /\ ~prev.oam_access
    /\ Mem(prev, \hFE00) = 0
    /\ read_byte(prev, \h4000) = 2
    /\ Mem(gb, \hFE00) = 2

\* C25 happens from video RAM while it is restricted: read_byte returned
\* 0xFF for every source byte, and OAM holds 0xFF throughout.
C25_WitnessRestrictedSource ==
    /\ act = "Bus_write"
    /\ obs.addr = \hFF46
    /\ obs.data = \h80
    /\ ~prev.vram_access
    /\ \A i \in 0..159 : Mem(gb, \hFE00 + i) = \hFF

---------------------------------------------------------------------------
(* Claims on the ROM area and the bank controllers                         *)

\* The byte of the cartridge image that the bank mapping of s shows at the
\* ROM address a: the image itself below 0x4000, the selected bank above;
\* -1 where that lies beyond the image and the read panics.
RomReport(s, a) ==
    LET bank == IF s.mbc.kind = "None" THEN 1 ELSE s.mbc.rom_bank
        at == IF a < \h4000 THEN a ELSE (a - \h4000) + bank * \h4000
    IN  IF at < s.rom.length THEN At(s.rom.data, at) ELSE -1

C21_WitnessNoMbc ==
    /\ act = "Mbc_control"
    /\ gb.mbc.kind = "None"
    /\ obs.addr = \h0000
    /\ obs.data = \h3A
    /\ gb = prev
    /\ obs.val = 1

\* C26: with an MBC1, an MBC2 or an MBC3, the ROM bank selected for
\* 0x4000..0x7FFF is never 0 after any sequence of control writes: a value
\* that decodes to bank 0 selects bank 1.
C26_BankNotZero == gb.mbc.kind # "None" => gb.mbc.rom_bank # 0

\* C26 happens: 0x00 written to the bank register (0x2100 is one for each of
\* the three controllers) while another bank was selected, and bank 1 is
\* selected now.
C26_Witness ==
    /\ act = "Mbc_control"
    /\ obs.addr = \h2100
    /\ obs.data = \h00
    /\ prev.mbc.kind = "MBC1"
    /\ prev.mbc.rom_bank = \h0A
    /\ gb.mbc.rom_bank = 1

\* C26 happens with MBC2: 0x20, whose low nibble is 0, written to 0x2100
\* while bank 10 was selected.
C26_WitnessMbc2 ==
    /\ act = "Mbc_control" /\ obs.addr = \h2100 /\ obs.data = \h20
    /\ prev.mbc.kind = "MBC2" /\ prev.mbc.rom_bank = \h0A /\ gb.mbc.rom_bank = 1

\* C26 happens with MBC3: 0x00 written to 0x2000 while bank 0x3A was selected.
C26_WitnessMbc3 ==
    /\ act = "Mbc_control" /\ obs.addr = \h2000 /\ obs.data = \h00
    /\ prev.mbc.kind = "MBC3" /\ prev.mbc.rom_bank = \h3A /\ gb.mbc.rom_bank = 1

\* C27: with an MBC1 the low five bits of the selected ROM bank are never
\* zero after any sequence of control writes (banks 0x00, 0x20, 0x40, 0x60
\* give way to 0x01, 0x21, 0x41, 0x61); on a cartridge of 128 banks, 0x00
\* written to 0x2000 selects bank 1 and 0x20 written to 0x2000 selects bank
\* 0x21.
C27_LowFiveBits ==
    gb.mbc.kind = "MBC1" =>
        /\ gb.mbc.rom_bank % 32 # 0
        /\ (/\ act = "Mbc_control"
            /\ obs.addr = \h2000
            /\ gb.mbc.number_of_rom_banks = 128) =>
               /\ (obs.data = \h00 /\ prev.mbc.rom_bank < 32) => gb.mbc.rom_bank = 1
               /\ obs.data = \h20 => gb.mbc.rom_bank = \h21

\* C27 fails in its invariant: on the 128-bank MBC1, with the high bits 0x20
\* selected, 0x00 written to 0x2000 has selected bank 0x20.
C27_Witness ==
    /\ act = "Mbc_control"
    /\ gb.mbc.kind = "MBC1"
    /\ gb.mbc.number_of_rom_banks = 128
    /\ obs.addr = \h2000
    /\ obs.data = \h00
    /\ prev.mbc.rom_bank = \h21
    /\ gb.mbc.rom_bank = \h20

\* C27 fails in its example: after Mbc1::new, 0x20 written to 0x2000 of the
\* 128-bank cartridge has selected bank 1, not 0x21.
C27_WitnessExample ==
    /\ act = "Mbc_control"
    /\ gb.mbc.kind = "MBC1"
    /\ gb.mbc.number_of_rom_banks = 128
    /\ obs.addr = \h2000
    /\ obs.data = \h20
    /\ prev.mbc = Mbc1_new(prev.rom)
    /\ gb.mbc.rom_bank = 1

\* The first example of C27 holds: 0x00 written to 0x2000 while the high
\* bits are 0 selects bank 1.
C27_ZeroSelectsOne ==
    (/\ act = "Mbc_control"
     /\ gb.mbc.kind = "MBC1"
     /\ obs.addr = \h2000
     /\ obs.data = \h00
     /\ prev.mbc.rom_bank < 32) => gb.mbc.rom_bank = 1

\* C28: a request for a ROM bank beyond the capacity of the cartridge is
\* masked: after any control write the selected bank is below the number of
\* banks of the image, so that a read of 0x4000..0x7FFF resolves inside the
\* image and does not panic.
C28_BankInImage ==
    gb.mbc.kind # "None" =>
        /\ gb.mbc.rom_bank * \h4000 + \h3FFF < gb.rom.length
        /\ \A a \in {\h4000, \h7FFF} : read_byte(gb, a) # -1

\* C28 fails: 0x0A written to 0x2000 of the 4-bank MBC1 has selected bank
\* 10, and the read of 0x4000 indexes the image at 0x28000, beyond its
\* 0x10000 bytes.
C28_Witness ==
    /\ act = "Mbc_control"
    /\ gb.mbc.kind = "MBC1"
    /\ gb.rom.length = 4 * \h4000
    /\ obs.addr = \h2000
    /\ obs.data = \h0A
    /\ gb.mbc.rom_bank = 10
    /\ read_byte(gb, \h4000) = -1

\* C29: MBC1 RAM gate: a value whose low nibble is 0xA written to
\* 0x0000..0x1FFF enables the cartridge RAM and any other value disables it;
\* while it is disabled, a write to 0xA000..0xBFFF leaves the RAM buffer as
\* it is.
C29_RamGate ==
    gb.mbc.kind = "MBC1" =>
        /\ (act = "Mbc_control" /\ obs.addr <= \h1FFF) =>
               gb.mbc.enable_ram = (obs.data % 16 = \h0A)
        /\ (act = "Mbc_ram_write" /\ ~prev.mbc.enable_ram) =>
               gb.mbc.external_ram = prev.mbc.external_ram

\* C29 fails in its second half: with RAM disabled, 0x5A written to 0xA000
\* is in the RAM buffer and is read back.
C29_Witness ==
    /\ act = "Mbc_ram_write"
    /\ gb.mbc.kind = "MBC1"
    /\ ~prev.mbc.enable_ram
    /\ ~gb.mbc.enable_ram
    /\ obs.addr = \hA000
    /\ At(prev.mbc.external_ram, gb.mbc.ram_bank * RAM_BANK_SIZE) = 0
    /\ At(gb.mbc.external_ram, gb.mbc.ram_bank * RAM_BANK_SIZE) = \h5A
    /\ obs.val = \h5A

\* The first half of C29 holds: the gate register follows the low nibble.
C29_GateRegister ==
    (gb.mbc.kind = "MBC1" /\ act = "Mbc_control" /\ obs.addr <= \h1FFF) =>
        gb.mbc.enable_ram = (obs.data % 16 = \h0A)

---------------------------------------------------------------------------
(* Claims on the joypad                                                    *)

\* C30: for every button k that was released beforehand, set_button(k)
\* followed by reset_button(k) restores the low nibble of the joypad register,
\* read_byte(0xFF00), to what it was before the two calls; the nibbles the
\* register shows once the guest selects a button group are restored too.
C30_SetThenReset ==
    (act = "Joy_reset" /\ obs.writes = 2 /\ obs.data = 1) =>
        /\ JoypadNibble(gb) = obs.val
        /\ JoypadReport(gb) = obs.tima

\* C30 happens: the register still showed 0x17 (action buttons selected,
\* START down) from an earlier press; START (button 4), released, was
\* pressed and released again, and the register shows 0x17 as before.
C30_Witness ==
    /\ act = "Joy_reset"
    /\ obs.writes = 2
    /\ obs.data = 1
    /\ obs.addr = 4
    /\ Pressed(prev) = {4}
    /\ Pressed(gb) = {}
    /\ obs.val = 7
    /\ read_byte(gb, JOYPAD_REGISTER_ADDR) = \h17

\* The row that bits 5 and 4 of the joypad register select, as handle_joypad
\* decodes them.
SelectedRow(s) == (read_byte(s, JOYPAD_REGISTER_ADDR) \div 16) % 4

\* C31: whenever the last write to 0xFF00 has selected a row, the low nibble
\* of read_byte(0xFF00) is the present state of the four buttons of that row
\* (0 pressed, 1 released), button changes made by set_button and
\* reset_button since that write included; with neither row selected the
\* low nibble is 0xF.
C31_JoypadReads ==
    /\ SelectedRow(gb) = 1 => JoypadNibble(gb) = get_buttons_for_mode(gb, "ACTION")
    /\ SelectedRow(gb) = 2 => JoypadNibble(gb) = get_buttons_for_mode(gb, "DIRECTION")
    /\ SelectedRow(gb) = 3 => JoypadNibble(gb) = \h0F

\* C31 fails: the action row was selected with no button down, START (button
\* 4) has been pressed since, and the register still reads 0x1F where the
\* row is 0x7.
C31_Witness ==
    /\ act = "Joy_set"
    /\ obs.addr = 4
    /\ Pressed(gb) = {4}
    /\ get_buttons_for_mode(gb, "ACTION") = 7
    /\ read_byte(gb, JOYPAD_REGISTER_ADDR) = \h1F

\* What holds of C31: right after the write that selects it, the register
\* shows the row, and 0xF when neither row is selected.
C31_AtSelect ==
    act = "Joy_select" =>
        /\ SelectedRow(gb) = 1 => JoypadNibble(gb) = get_buttons_for_mode(gb, "ACTION")
        /\ SelectedRow(gb) = 2 => JoypadNibble(gb) = get_buttons_for_mode(gb, "DIRECTION")
        /\ SelectedRow(gb) = 3 => JoypadNibble(gb) = \h0F

\* C32: in every reachable state, whatever value was written, bits 7 and 6
\* of read_byte(0xFF00) are 1.
C32_HighBits == read_byte(gb, JOYPAD_REGISTER_ADDR) \div 64 = 3

\* C32 fails: 0x20 was written to the register, which reads 0x2F: bits 7
\* and 6 are 0, as written.
C32_Witness ==
    /\ act = "Joy_select"
    /\ Pressed(gb) = {}
    /\ read_byte(prev, JOYPAD_REGISTER_ADDR) = \hFF
    /\ read_byte(gb, JOYPAD_REGISTER_ADDR) = \h2F

\* C38: MBC1 banking mode: a write to 0x6000..0x7FFF selects RAM mode when
\* bit 0 of the value is 1 and ROM mode otherwise; a 2-bit value h written to
\* 0x4000..0x5FFF then becomes bits 6-5 of the ROM bank in ROM mode (the low
\* five bits kept), and the RAM bank number in RAM mode (the ROM bank kept).
C38_BankingMode ==
    (gb.mbc.kind = "MBC1" /\ act = "Mbc_control") =>
        /\ obs.addr >= \h6000 =>
               gb.mbc.banking_mode = (IF obs.data % 2 = 1 THEN "RAM" ELSE "ROM")
        /\ (obs.addr >= \h4000 /\ obs.addr <= \h5FFF /\ obs.data <= 3) =>
               IF prev.mbc.banking_mode = "ROM"
               THEN /\ (gb.mbc.rom_bank \div 32) % 4 = obs.data
                    /\ gb.mbc.rom_bank % 32 = prev.mbc.rom_bank % 32
               ELSE /\ gb.mbc.ram_bank = obs.data
                    /\ gb.mbc.rom_bank = prev.mbc.rom_bank

\* C38 fails in ROM mode: on the 128-bank MBC1 with bank 10 selected, 0x01
\* written to 0x4000 has left bank 10 selected, where bits 6-5 = 1 make
\* bank 0x2A.
C38_Witness ==
    /\ act = "Mbc_control"
    /\ gb.mbc.kind = "MBC1"
    /\ gb.mbc.number_of_rom_banks = 128
    /\ prev.mbc.banking_mode = "ROM"
    /\ obs.addr = \h4000
    /\ obs.data = \h01
    /\ prev.mbc.rom_bank = \h0A
    /\ gb.mbc.rom_bank = \h0A

\* What holds of C38: the mode select, and the RAM bank in RAM mode.
C38_ModeAndRamBank ==
    (gb.mbc.kind = "MBC1" /\ act = "Mbc_control") =>
        /\ obs.addr >= \h6000 =>
               gb.mbc.banking_mode = (IF obs.data % 2 = 1 THEN "RAM" ELSE "ROM")
        /\ (obs.addr >= \h4000 /\ obs.addr <= \h5FFF /\ obs.data <= 3
            /\ prev.mbc.banking_mode = "RAM") =>
               /\ gb.mbc.ram_bank = obs.data
               /\ gb.mbc.rom_bank = prev.mbc.rom_bank

\* The RAM-mode half of C38 happens: bank 1 of the cartridge RAM selected.
C38_WitnessRamMode ==
    /\ act = "Mbc_control"
    /\ gb.mbc.kind = "MBC1"
    /\ prev.mbc.banking_mode = "RAM"
    /\ obs.addr = \h4000
    /\ obs.data = \h01
    /\ prev.mbc.ram_bank = 0
    /\ gb.mbc.ram_bank = 1

\* The scanline at which the PPU of SpecLcd started: 0, or 143.
LyStart(s) == IF LY(s) >= 143 THEN 143 ELSE 0

\* C37: with the LCD enabled and no guest write, each scanline lasts exactly
\* 456 of the cycles reported to update_graphics, whatever the split into
\* calls: after fed cycles in all, LY has advanced fed / 456 times, the
\* overshoot of an update being carried into the next scanline.
C37_ScanlineLength ==
    (obs.writes = 0 /\ is_lcd_enabled(gb)) =>
        LY(gb) = LyStart(gb) + obs.fed \div CYCLES_PER_SCANLINE

\* C37: an update of 24 cycles has found 12 cycles left in scanline 0 and
\* has started scanline 1 with the full 456 cycles.
C37_Witness ==
    /\ act = "Ppu_update_graphics"
    /\ obs.writes = 0
    /\ LY(prev) = 0
    /\ prev.scanline_counter = 12
    /\ ret = 24
    /\ LY(gb) = 1
    /\ gb.scanline_counter = CYCLES_PER_SCANLINE

\* C37: what holds instead.  A scanline ends in the update that takes the
\* counter to zero or below, and the next one starts with 456 cycles: the
\* overshoot is dropped.
C37_OvershootDropped ==
    (act = "Ppu_update_graphics" /\ is_lcd_enabled(prev)
        /\ prev.scanline_counter <= ret) =>
        /\ gb.scanline_counter = CYCLES_PER_SCANLINE
        /\ LY(gb) # LY(prev)

\* The STAT source bit of a mode is set in state s: bit 3 for HBlank, bit 4
\* for VBlank, bit 5 for the OAM search, none for the transfer.
StatSource(s, mode) ==
    /\ mode # LCD_TRANSFER
    /\ is_bit_set(Mem(s, LCD_STATUS_ADDR),
                  IF mode = H_BLANK THEN 3 ELSE IF mode = V_BLANK THEN 4 ELSE 5)

\* The PPU update just made has requested LCD_STAT, which was not requested
\* before it.
StatRequested == ~is_bit_set(IF_(prev), 1) /\ is_bit_set(IF_(gb), 1)

\* C36: with the LCD enabled, a PPU update requests LCD_STAT for the mode
\* if and only if it changes the STAT mode field and the STAT source bit of
\* the mode entered is set (bit 3 HBlank, bit 4 VBlank, bit 5 OAM search,
\* none for mode 3); the only other request it makes is that for LY = LYC.
C36_ModeInterrupt ==
    (act = "Ppu_update_graphics" /\ is_lcd_enabled(prev)
        /\ ~is_bit_set(IF_(prev), 1)) =>
        (StatRequested <=>
            \/ get_lcd_mode(gb) # get_lcd_mode(prev)
                   /\ StatSource(gb, get_lcd_mode(gb))
            \/ LY(prev) = Mem(prev, CURRENT_SCANLINE_COMPARE_ADDR))

\* C36: the update that takes LY = 144 from mode 0 to mode 1 with STAT bit 4
\* set and LY # LYC has requested LCD_STAT.
C36_Witness ==
    /\ act = "Ppu_update_graphics"
    /\ is_lcd_enabled(prev)
    /\ get_lcd_mode(prev) = H_BLANK
    /\ get_lcd_mode(gb) = V_BLANK
    /\ is_bit_set(Mem(gb, LCD_STATUS_ADDR), 4)
    /\ LY(prev) # Mem(prev, CURRENT_SCANLINE_COMPARE_ADDR)
    /\ StatRequested

\* C36: an update has changed the mode with the source bit of the mode
\* entered clear, and one has left the mode with its source bit set: neither
\* has requested LCD_STAT.
C36_WitnessNoRequest ==
    /\ act = "Ppu_update_graphics"
    /\ is_lcd_enabled(prev)
    /\ LY(prev) # Mem(prev, CURRENT_SCANLINE_COMPARE_ADDR)
    /\ ~is_bit_set(IF_(gb), 1)
    /\ \/ get_lcd_mode(gb) # get_lcd_mode(prev)
       \/ StatSource(gb, get_lcd_mode(gb))

\* C36 as stated, for every update: whenever the mode field after an update
\* differs from the one before it, LCD_STAT is requested if and only if the
\* source bit of the mode entered is set (LY = LYC apart).
C36_EveryTransition ==
    (act = "Ppu_update_graphics" /\ get_lcd_mode(gb) # get_lcd_mode(prev)
        /\ ~is_bit_set(IF_(prev), 1)
        /\ LY(prev) # Mem(prev, CURRENT_SCANLINE_COMPARE_ADDR)) =>
        (StatRequested <=> StatSource(gb, get_lcd_mode(gb)))

\* The size of the external RAM of state s: 0x2000 without a controller,
\* 0x200 for MBC2, 0x8000 for MBC1 and MBC3.
RamSize(s) ==
    IF s.mbc.kind = "None" THEN \h2000
    ELSE IF s.mbc.kind = "MBC2" THEN \h200
    ELSE \h8000

\* C35: for every kind of cartridge and every buffer b, load_external_ram(b)
\* copies the first min(len(b), RAM size) bytes of b into the external RAM,
\* leaves the rest of the RAM and everything else as it was, also when b is
\* longer than the RAM, and the get_external_ram that follows returns the
\* whole RAM, which begins with those bytes.
C35_SaveRoundTrip ==
    /\ act = "get_external_ram" => ret = RamSize(gb)
    /\ (act = "load_external_ram" \/ (act = "get_external_ram" /\ obs.tima = 1)) =>
           LET b == SaveBuffers[obs.val]
               before == get_external_ram(prev)
               after == get_external_ram(gb)
           IN  /\ after.len = RamSize(gb)
               /\ before.len = after.len
               /\ DOMAIN after.data \subseteq 0..(after.len - 1)
               /\ \A i \in (DOMAIN after.data \cup DOMAIN before.data
                                \cup DOMAIN b.data) \cap 0..(after.len - 1) :
                      At(after.data, i) =
                          IF i < b.len THEN At(b.data, i) ELSE At(before.data, i)
               /\ [gb EXCEPT !.memory = prev.memory, !.mbc = prev.mbc] = prev

\* C35: a buffer longer than the RAM has been loaded into a RAM the guest
\* had written to, and the host has fetched the RAM.
C35_Witness ==
    /\ act = "get_external_ram"
    /\ obs.tima = 1
    /\ SaveBuffers[obs.val].len > RamSize(gb)
    /\ obs.writes > 0
    /\ ret = RamSize(gb)

\* C35: a two-byte buffer has been loaded over a RAM with 0x0F at 0x1FF:
\* the byte is still there.
C35_WitnessShort ==
    /\ act = "load_external_ram"
    /\ SaveBuffers[obs.val].len = 2
    /\ At(get_external_ram(prev).data, \h1FF) = \h0F
    /\ At(get_external_ram(gb).data, \h1FF) = \h0F
    /\ At(get_external_ram(gb).data, 1) = \h22

\* The handler of the interrupt found by the last handle_interrupts has been
\* entered in state s: IME is clear and PC is at its vector.
HandlerEntered(s) ==
    /\ irq # "None"
    /\ ~s.interrupts_enabled
    /\ \E i \in 1..5 : ByBit[i] = irq /\ s.program_counter = Vector[i]

\* C39: once an interrupt is serviced (IME cleared), IME stays 0 until an EI
\* or a RETI is executed afterwards: also when the interrupt was taken right
\* after an EI or a DI, the first instruction of the handler, if it is
\* neither EI nor RETI, leaves IME = 0.
C39_ImeStaysClear ==
    (act = "Run_execute" /\ HandlerEntered(prev) /\ ~prev.halted
        /\ OpAt(prev) \notin {\hFB, \hD9}) =>
        ~gb.interrupts_enabled

\* C39: an interrupt was taken right after an EI executed with IME = 1, and
\* the NOP at its vector has set IME.
C39_Witness ==
    /\ act = "Run_execute"
    /\ HandlerEntered(prev)
    /\ prev.last_op = "EI"
    /\ prev.will_enable_interrupts
    /\ OpAt(prev) = \h00
    /\ gb.interrupts_enabled

\* C39: what holds instead.  The first instruction of a handler leaves IME
\* clear unless the interrupt was taken right after an EI whose latch is
\* still set; after a DI it does.
C39_ClearUnlessLatched ==
    (act = "Run_execute" /\ HandlerEntered(prev) /\ ~prev.halted
        /\ OpAt(prev) \notin {\hFB, \hD9}
        /\ ~(prev.last_op = "EI" /\ prev.will_enable_interrupts)) =>
        ~gb.interrupts_enabled

\* C39: an interrupt was taken right after a DI executed with IME = 1, and
\* the first instruction of its handler has completed.
C39_WitnessAfterDi ==
    /\ act = "Run_execute"
    /\ HandlerEntered(prev)
    /\ prev.last_op = "DI"
    /\ prev.will_disable_interrupts
    /\ ~gb.interrupts_enabled

\* The word on top of the stack of state s.
StackTop(s) == Mem(s, s.stack_pointer) + 256 * Mem(s, Wrap16(s.stack_pointer + 1))

\* C33: the bits 3-0 of F are always zero; POP AF takes A from the high
\* byte popped and F from the low byte masked with 0xF0; and after POP AF;
\* PUSH AF; POP BC the low nibble of C is zero, whatever was on the stack.
C33_FlagLowNibble ==
    /\ Lo(gb.af) % 16 = 0
    /\ (act = "Run_execute" /\ OpAt(prev) = \hF1) =>
           /\ Hi(gb.af) = Hi(StackTop(prev))
           /\ Lo(gb.af) = Lo(StackTop(prev)) - (Lo(StackTop(prev)) % 16)
    /\ (act = "Run_execute" /\ OpAt(prev) = \hC1 /\ steps = 3
            /\ Mem(prev, prev.program_counter - 2) = \hF1
            /\ Mem(prev, prev.program_counter - 1) = \hF5) =>
           /\ Lo(gb.bc) % 16 = 0
           /\ gb.bc = gb.af

\* C33: POP AF; PUSH AF; POP BC has run over a stack word with all four low
\* bits set: F and C are 0xF0.
C33_Witness ==
    /\ act = "Run_execute"
    /\ OpAt(prev) = \hC1
    /\ steps = 3
    /\ Mem(prev, prev.program_counter - 2) = \hF1
    /\ Mem(prev, prev.program_counter - 1) = \hF5
    /\ gb.bc = \h12F0
    /\ Lo(gb.af) = \hF0

\* The word at the addresses addr and addr + 1 of state s, low byte first.
WordIn(s, addr) == Mem(s, Wrap16(addr)) + 256 * Mem(s, Wrap16(addr + 1))

\* C34: for every nn and PC, with SP in writable RAM, CALL nn leaves SP
\* two lower, PC + 3 at the new SP with the low byte first, and PC = nn; a
\* RET executed next restores PC + 3, the address after the CALL, and SP.
C34_CallRet ==
    /\ (act = "Run_execute" /\ OpAt(prev) = \hCD) =>
           /\ gb.stack_pointer = Wrap16(prev.stack_pointer + 65534)
           /\ WordIn(gb, gb.stack_pointer) = Wrap16(prev.program_counter + 3)
           /\ gb.program_counter = WordIn(prev, prev.program_counter + 1)
    /\ (act = "Run_execute" /\ OpAt(prev) = \hC9 /\ prev.last_op = "CALL"
            /\ irq = "None") =>
           /\ gb.stack_pointer = Wrap16(prev.stack_pointer + 2)
           /\ Mem(gb, Wrap16(gb.program_counter + 65533)) = \hCD
           /\ WordIn(gb, gb.program_counter + 65534) = prev.program_counter

\* C34: the RET at 0x1234 has returned to 0x8000, behind the CALL at 0x7FFD,
\* with the stack pointer back at the start of the echo area.
C34_Witness ==
    /\ act = "Run_execute"
    /\ OpAt(prev) = \hC9
    /\ prev.last_op = "CALL"
    /\ prev.program_counter = \h1234
    /\ gb.program_counter = \h8000
    /\ gb.stack_pointer = \hE000

\* C34: the CALL at 0xFFFD has pushed the return address 0x0000.
C34_WitnessWrap ==
    /\ act = "Run_execute"
    /\ OpAt(prev) = \hCD
    /\ prev.program_counter = \hFFFD
    /\ WordIn(gb, gb.stack_pointer) = 0
    /\ gb.program_counter = \h0034

\* The instruction at PC of state s is a relative jump that is taken: JR e,
\* or JR NZ,e with Z clear.
JumpTaken(s) ==
    \/ OpAt(s) = \h18
    \/ OpAt(s) = \h20 /\ ~is_zero_flag_set(s)

\* The operand of the two-byte instruction at PC of state s, as a signed
\* byte.
OperandOf(s) == Signed(Mem(s, Wrap16(s.program_counter + 1)))

\* C40: for every signed e in -128..127, JR e and a taken conditional JR set
\* PC to (the address after the operand + e) mod 2^16, and ADD SP,e sets SP
\* to (SP + e) mod 2^16, e = -128 and e = 0 included; neither panics.
C40_SignedOffset ==
    (act = "Run_execute" /\ ~prev.halted) =>
        /\ JumpTaken(prev) =>
               /\ ~gb.panicked
               /\ gb.program_counter =
                      Wrap16(prev.program_counter + 2 + 65536 + OperandOf(prev))
        /\ OpAt(prev) = \hE8 =>
               /\ ~gb.panicked
               /\ gb.stack_pointer =
                      Wrap16(prev.stack_pointer + 65536 + OperandOf(prev))

\* C40: JR -128 at 0x0100 has completed without a panic, and PC is 0x0182.
C40_Witness ==
    /\ act = "Run_execute"
    /\ OpAt(prev) = \h18
    /\ prev.program_counter = \h0100
    /\ OperandOf(prev) = -128
    /\ ~gb.panicked
    /\ gb.program_counter = \h0182

\* C40: ADD SP,-128 at SP = 0xC0F8 has completed without a panic, and SP is
\* 0xC178.
C40_WitnessAddSp ==
    /\ act = "Run_execute"
    /\ OpAt(prev) = \hE8
    /\ OperandOf(prev) = -128
    /\ prev.stack_pointer = \hC0F8
    /\ ~gb.panicked
    /\ gb.stack_pointer = \hC178

\* C40: what holds instead.  In a build without overflow checks the claim
\* holds for every e but -128, where PC and SP move up by 128; in a build
\* with them it holds unless e = -128 or the sum leaves 0..0xFFFF in a
\* jump, and then the emulator panics.
C40_ExceptMinimum ==
    (act = "Run_execute" /\ ~prev.halted /\ OperandOf(prev) # -128) =>
        /\ JumpTaken(prev) =>
               LET sum == prev.program_counter + 2 + OperandOf(prev)
               IN  IF prev.overflow_checks /\ sum \notin 0..\hFFFF
                   THEN gb.panicked
                   ELSE ~gb.panicked /\ gb.program_counter = Wrap16(sum + 65536)
        /\ OpAt(prev) = \hE8 =>
               /\ ~gb.panicked
               /\ gb.stack_pointer =
                      Wrap16(prev.stack_pointer + 65536 + OperandOf(prev))

====
